---- MODULE Spec2Model ----
(***************************************************************************)
(* Model of matcha's per-connection duplex pipeline                        *)
(* (net/tcp/peer/pipeline.go, net/tcp/peer/channel.go) and of the          *)
(* goroutine wrapper it joins on (parallel/goroutine.go).                  *)
(*                                                                         *)
(* One pipeline, its three workers (reader, inbound dispatcher, outbound   *)
(* writer), the detached goroutine the reader spawns to run Stop, and two  *)
(* application threads that call the pipeline's methods concurrently.      *)
(***************************************************************************)
EXTENDS Integers, Sequences, FiniteSets, TLC

\* ------------------------------------------------------------------------
\* Program constants
\* ------------------------------------------------------------------------
dataChanSize == 10

stateNew == 0

stateReady == 1

stateRunning == 2

stateShutdown == 3

\* parallel/goroutine.go: the states of a StatementGoroutine
goroutineStateNew == 0

goroutineStateRunning == 1

stateFinish == 2

\* peer/ack.go: make(ackRespChan, 2)
ackRespChanSize == 2

\* codec/tlv.go
TagSize == 1

LengthSize == 4

\* ------------------------------------------------------------------------
\* Bounds of the model
\* ------------------------------------------------------------------------
\* messages the decoder emits in a run with a handler that only returns
MaxMsgs == 11

\* messages the decoder emits in a run whose handler calls back into the pipeline
MaxCallbackMsgs == 2

\* Send / SendFuture calls with a callback made by the application threads
MaxSends == 2

\* decode errors the decoder reports
MaxDecodeErrs == 1

\* initial size of a ByteBuf
MaxInitSize == 2

\* bytes passed to one WriteBytes call, and asked of one ReadBytes call
MaxWrite == 3

\* bytes written to one ByteBuf in a run
MaxBufBytes == 5

\* frames put on the wire in a run of the codecs
MaxFrames == 2

\* CommitAck calls of a run
MaxCommits == 3

\* Decode calls of a run that return a message or an error
MaxResults == 4

\* bytes of the longest chunk
MaxChunk == 3

\* the workers of an acceptor, at most
MaxWorkers == 2

\* the connections a server accepts, at most
MaxConns == 2

\* the calls of Client.Send and Client.SendFuture, at most
MaxCalls == 2

\* the bytes one conn.Read returns, at most (the size of the read buffer)
MaxRead == 9

\* ------------------------------------------------------------------------
\* Threads
\* ------------------------------------------------------------------------
Callers == {"c1", "c2"}

Workers == {"reader", "inbound", "outbound", "stopper"}

Threads == Callers \cup Workers

NoThread == "none"

\* The environments explored: what the ChannelRead of the handler the
\* initializer supplied does ("plain": it returns; "close": it calls
\* Channel.Close; "send": it calls Channel.Send, as the handlers of the
\* repository's test and demo do), how many
\* frames and malformed frames the peer sends, and which send method the
\* application threads call how often.
Scenarios ==
    { [handler |-> "plain", msgs |-> MaxMsgs, errs |-> MaxDecodeErrs, sends |-> 0,
       api |-> "none"],
      [handler |-> "close", msgs |-> MaxCallbackMsgs, errs |-> 0, sends |-> 0,
       api |-> "none"],
      [handler |-> "send", msgs |-> MaxCallbackMsgs, errs |-> 0, sends |-> 0,
       api |-> "none"],
      [handler |-> "plain", msgs |-> 0, errs |-> 0, sends |-> MaxSends,
       api |-> "SendFuture"],
      [handler |-> "plain", msgs |-> 0, errs |-> 0, sends |-> MaxSends,
       api |-> "Send"],
      [handler |-> "plain", msgs |-> 0, errs |-> 0, sends |-> 0,
       api |-> "SendFutureNoCallback"],
      [handler |-> "plain", msgs |-> 0, errs |-> 0, sends |-> MaxSends,
       api |-> "ChannelSend"] }

VARIABLES
    state,                \* cp.state
    muW,                  \* cp.stateMutex: the thread holding the write lock
    muR,                  \* cp.stateMutex: the threads holding a read lock
    inboundDataC,         \* [st, buf]: cp.inboundDataC
    outboundDataC,        \* [st, buf]: cp.outboundDataC
    inboundHandlerStopC,  \* "nil" | "open" | "closed"
    outboundHandlerStopC, \* "nil" | "open" | "closed"
    connClosed,           \* cp.conn has been closed by Stop
    pc,                   \* where each thread is
    cur,                  \* the send id a thread's Send/SendFuture call carries
    outCur,               \* the entry the outbound worker has taken off the queue
    env,                  \* the scenario
    emitted,              \* messages the decoder has emitted so far (ids 1..emitted)
    decErrs,              \* decode errors so far
    nextSend,             \* send ids handed out so far
    sendKind,             \* per send id: "user" | "send" | "sendnil"
    delivered,            \* messages passed to ChannelRead, in order
    reading,              \* ChannelRead calls in progress
    cbLog,                \* callback invocations: <<id, thread, error>>
    encodeErrs,           \* send ids whose encode error was passed to ChannelError
    pushLog,              \* ids pushed on the outbound queue, in order
    wrLog,                \* ids written to the transport, in order
    nActivate,            \* ChannelActivate invocations
    nInactivate,          \* ChannelInactivate invocations
    stopReturned,         \* what the Stop calls that returned found or left:
                          \* "unstarted" | "stopped"
    hookAfterStop,        \* the stopReturned values that held when a hook ran
    crashed,              \* a goroutine panicked (send on a closed channel)
    buf,                  \* a ByteBuf: [buffer, readIndex, writeIndex, capacity]
    bufWritten,           \* bytes written to buf so far (the k-th written byte is k)
    bufRead,              \* the bytes the ReadBytes calls returned, concatenated
    bufOps,               \* the calls made other than WriteBytes, Release and
                          \* ReadBytes within the readable count
    bufPanic,             \* a ByteBuf call panicked (slice bounds out of range)
    cfg,                  \* the codec in use and its configuration
    frames,               \* the frames put on the wire so far, in order
    wire,                 \* the bytes on the wire not yet appended to buf
    dec,                  \* TLVFrameDecoder: [hasTag, hasLength, tagValue, lengthValue]
    out,                  \* what the Decode calls returned, (nil, nil) left out
    lastEncode,           \* the last Encode call: its input and its result
    ackRespChanMap,       \* SafeAckManager: the slot of the key (0: no entry)
    ackChans,             \* the ackRespChan of every slot made so far
    apc,                  \* where each caller of the ack manager is
    aloc,                 \* the slot each caller has loaded (0: none)
    ackRes,               \* what WaitAck returned
    ackLog,               \* the events of the ack manager, in order
    ackTimeout,           \* the timeout handed to WaitAck (0: wait for ever)
    nCommits,             \* the CommitAck calls made so far
    srv,                  \* pipelineServer: [running, acceptor, done]
    srvMu,                \* pipelineServer.stateMutex: "free" or the call holding it
    acc,                  \* parallelAcceptor: [parallelism, running, workerCounter,
                          \* wg, done (the Done calls so far), listener]
    accMu,                \* parallelAcceptor.stateMutex: "free" or the call holding it
    group,                \* the channel group: the connections stored
    conns,                \* every connection: [stage, pipe, closed]
    spc,                  \* where the callers of Server.Start and Server.Stop are
    wpc,                  \* where each worker of the acceptor is
    rangeTodo,            \* CloseAll: the channels Range has yet to reach
    cl,                   \* pipelineClient: [running, pipeline, wg]
    clMuW,                \* pipelineClient.stateMutex: the thread holding the write lock
    clMuR,                \* pipelineClient.stateMutex: the threads holding a read lock
    clPipe,               \* the client's pipeline: [state, queued, self]
    kpc,                  \* where each thread of the client is
    clCall,               \* the last call of Client.Send or Client.SendFuture
    nCalls,               \* the calls of Client.Send and Client.SendFuture so far
    rd,                   \* the reader worker over a codec: [pc, received, failed,
                          \* fedAfter]
    gr,                   \* StatementGoroutine and its callers: [state, mutex, wg,
                          \* executed, spc, calls, rpc, started, jpc, jafter,
                          \* alive, nAlive]
    bs                    \* byteSliceBitSet: [bytes, wordInUse, sets (the Set
                          \* calls so far)]

pvars == <<state, muW, muR, inboundDataC, outboundDataC, inboundHandlerStopC,
           outboundHandlerStopC, connClosed>>

tvars == <<pc, cur, outCur>>

evars == <<env, emitted, decErrs, nextSend, sendKind>>

hvars == <<delivered, reading, cbLog, encodeErrs, pushLog, wrLog, nActivate, nInactivate,
           stopReturned, hookAfterStop, crashed>>

bvars == <<buf, bufWritten, bufRead, bufOps, bufPanic>>

cvars == <<cfg, frames, wire, dec, out, lastEncode>>

avars == <<ackRespChanMap, ackChans, apc, aloc, ackRes, ackLog, ackTimeout, nCommits>>

svars == <<srv, srvMu, acc, accMu, group, conns, spc, wpc, rangeTodo>>

kvars == <<cl, clMuW, clMuR, clPipe, kpc, clCall, nCalls>>

rvars == <<rd>>

uvars == <<gr, bs>>

\* the state of the components around the pipeline
yvars == <<avars, svars, kvars, rvars, uvars>>

\* the state outside the pipeline
xvars == <<bvars, cvars, yvars>>

vars == <<pvars, tvars, evars, hvars, xvars>>

\* ------------------------------------------------------------------------
\* Go primitives
\* ------------------------------------------------------------------------
\* make(chan T, n)
MakeChan == [st |-> "open", buf |-> <<>>]

NilChan == [st |-> "nil", buf |-> <<>>]

\* a send on a buffered channel proceeds when the buffer has room
HasRoom(c) == Len(c.buf) < dataChanSize

\* a queue that puts the newest value first
ChanPushFront(c, v) == [c EXCEPT !.buf = <<v>> \o c.buf]

\* c <- v
ChanPush(c, v) == [c EXCEPT !.buf = Append(c.buf, v)]

\* the value a receive takes
ChanFront(c) == Head(c.buf)

\* the channel after a receive
ChanPop(c) == [c EXCEPT !.buf = Tail(c.buf)]

\* close(c)
ChanClose(c) == [c EXCEPT !.st = "closed"]

\* sync.RWMutex.Lock succeeds when nobody holds the lock
CanLock == muW = NoThread /\ muR = {}

\* Lock calls that are blocked: they keep new readers out
LockWaiters == {t \in Threads : pc[t] = "Stop_Lock"}

\* sync.RWMutex.RLock succeeds when no writer holds or waits for the lock
CanRLock == muW = NoThread /\ LockWaiters = {}

\* a Stop that does not wait for the reader
JoinedExceptReader(w) == w = "reader" \/ pc[w] = "done"

\* Goroutine.Join returns once the statement of the goroutine has returned
Joined(w) == pc[w] = "done"

\* where a thread continues when the pipeline method it called returns
ReturnPc(t) ==
    IF t \in Callers THEN "idle"
    ELSE IF t = "inbound" THEN "ChannelRead_ret"
    ELSE "done"

\* a handler hook runs: remember which Stop returns preceded it
Hook == hookAfterStop' = hookAfterStop \cup stopReturned

NoHook == hookAfterStop' = hookAfterStop

\* the callback of send id i has been invoked
Fired(i) == \E k \in 1..Len(cbLog) : cbLog[k][1] = i

\* the errors a callback receives: errors.New("pipeline closed"), the
\* encoder's error, the error of conn.Write, or nil
ErrPipelineClosed == "pipeline closed"

ErrEncode == "encode"

ErrWrite == "write"

NoErr == "nil"

\* callback(err) for entry i on thread t; a nil callback (i = 0) is skipped.
\* Send's callback writes to sendResultChan and closes it, so its second
\* invocation panics with a send on a closed channel.
Callback(i, t, err) ==
    /\ cbLog' = IF i = 0 THEN cbLog ELSE Append(cbLog, <<i, t, err>>)
    /\ crashed' = (i # 0 /\ sendKind[i] = "send" /\ Fired(i))

\* a panic in any goroutine ends the process: no thread takes another step
Panic == [t \in Threads |-> "panic"]

\* ------------------------------------------------------------------------
\* ByteBuf (elasticUnsafeByteBuf)
\* ------------------------------------------------------------------------
\* make([]byte, n)
Zeros(n) == [i \in 1..n |-> 0]

\* copy(dst[off:], src): min(len(dst) - off, len(src)) elements are copied
CopyInto(dst, off, src) ==
    [i \in 1..Len(dst) |-> IF i > off /\ i - off <= Len(src) THEN src[i - off] ELSE dst[i]]

\* NewElasticUnsafeByteBuf(initSize)
NewElasticUnsafeByteBuf(initSize) ==
    LET size == IF initSize < 0 THEN 0 ELSE initSize
    IN  [buffer |-> Zeros(size), readIndex |-> 0, writeIndex |-> 0, capacity |-> size]

\* ReadableBytes()
ReadableBytes(pb) == pb.writeIndex - pb.readIndex

\* WritableBytes()
WritableBytes(pb) == pb.capacity - pb.writeIndex

\* the product rounded up
GrowCeiling(n) == (n * 12 + 9) \div 10

\* int(float32(n) * 1.2)
GrowSize(n) == (n * 12) \div 10

\* WriteBytes allocates when the writable count is below the size of the write
MustGrow(pb, bytes) == WritableBytes(pb) < Len(bytes)

\* WriteBytes: the buffer after the allocation, if there is one
Grown(pb, bytes) ==
    IF MustGrow(pb, bytes)
    THEN LET newSize == GrowSize(Len(bytes) + pb.writeIndex)
         IN  [pb EXCEPT !.buffer = CopyInto(Zeros(newSize), 0, pb.buffer),
                        !.capacity = newSize]
    ELSE pb

\* WriteBytes(bytes) panics in pb.buffer[pb.writeIndex:] when the write index
\* lies behind the end of the backing array
WriteBytesPanics(pb, bytes) ==
    /\ Len(bytes) > 0
    /\ ~MustGrow(pb, bytes)
    /\ pb.writeIndex > Len(pb.buffer)

\* WriteBytes(bytes)
WriteBytes(pb, bytes) ==
    IF Len(bytes) = 0
    THEN pb
    ELSE LET g == Grown(pb, bytes)
         IN  [g EXCEPT !.buffer = CopyInto(g.buffer, g.writeIndex, bytes),
                       !.writeIndex = g.writeIndex + Len(bytes)]

\* ReadBytes: the read index after the call
TargetReadIndex(pb, length) ==
    IF pb.readIndex + length <= pb.writeIndex THEN pb.readIndex + length ELSE pb.writeIndex

\* ReadBytes(length) panics in pb.buffer[pb.readIndex:targetReadIndex] when
\* the target lies behind the end of the backing array
ReadBytesPanics(pb, length) ==
    /\ length >= 0
    /\ TargetReadIndex(pb, length) > Len(pb.buffer)

\* ReadBytes(length): the bytes returned (a slice of the requested length)
ReadBytesResult(pb, length) ==
    IF length < 0
    THEN <<>>
    ELSE CopyInto(Zeros(length), 0,
                  SubSeq(pb.buffer, pb.readIndex + 1, TargetReadIndex(pb, length)))

\* ReadBytes(length): the buffer after the call
ReadBytes(pb, length) ==
    IF length < 0 THEN pb ELSE [pb EXCEPT !.readIndex = TargetReadIndex(pb, length)]

\* Reset()
Reset(pb) == [pb EXCEPT !.writeIndex = 0, !.readIndex = 0]

\* Release() panics in pb.buffer[pb.readIndex:pb.writeIndex] when the write
\* index lies behind the end of the backing array
ReleasePanics(pb) == pb.writeIndex > Len(pb.buffer)

\* Release(): the new backing array has capacity - readIndex elements; the
\* capacity field is left as it was
Release(pb) ==
    [pb EXCEPT !.buffer = CopyInto(Zeros(pb.capacity - pb.readIndex), 0,
                                   SubSeq(pb.buffer, pb.readIndex + 1, pb.writeIndex)),
               !.writeIndex = pb.writeIndex - pb.readIndex,
               !.readIndex = 0]

\* ------------------------------------------------------------------------
\* TLV codec (codec/tlv.go)
\* ------------------------------------------------------------------------
\* A length is kept as two 16-bit halves, hi * 65536 + lo, so that the
\* lengths around the range of uint32 can be written
Wide(n) == [hi |-> n \div 65536, lo |-> n % 65536]

\* a length that fits an int of the model
Narrow(w) == w.hi * 65536 + w.lo

WideAdd(a, b) ==
    [hi |-> a.hi + b.hi + (a.lo + b.lo) \div 65536, lo |-> (a.lo + b.lo) % 65536]

WideLess(a, b) == a.hi < b.hi \/ (a.hi = b.hi /\ a.lo < b.lo)

\* conversion to uint32
Uint32(w) == [hi |-> w.hi % 65536, lo |-> w.lo]

\* binary.Write(w, binary.BigEndian, v) for a uint32
BE32(w) == <<w.hi \div 256, w.hi % 256, w.lo \div 256, w.lo % 256>>

\* a length field read with the low byte first
FromLE32(b) == [hi |-> b[4] * 256 + b[3], lo |-> b[2] * 256 + b[1]]

\* binary.Read(r, binary.BigEndian, &v) for a uint32
FromBE32(b) == [hi |-> b[1] * 256 + b[2], lo |-> b[3] * 256 + b[4]]

\* binary.Write(w, binary.BigEndian, v) for a uint16
BE16(n) == <<(n \div 256) % 256, n % 256>>

\* binary.Read(r, binary.BigEndian, &v) for a uint16
FromBE16(b) == b[1] * 256 + b[2]

\* an input of Encode: a []byte of len bytes (its bytes are spelled out when
\* it is short), or a value of another type
BytesMsg(bytes) == [kind |-> "bytes", len |-> Wide(Len(bytes)), bytes |-> bytes]

LargeBytesMsg(w) == [kind |-> "bytes", len |-> w, bytes |-> <<>>]

OtherMsg == [kind |-> "other", len |-> Wide(0), bytes |-> <<>>]

\* payloadLength := uint32(len(payload))
PayloadLength(msg) == Uint32(msg.len)

\* frameSize := uint64(payloadLength + LengthSize + TagSize), a uint32 sum
FrameSize(msg) ==
    Uint32(WideAdd(WideAdd(PayloadLength(msg), Wide(LengthSize)), Wide(TagSize)))

\* the encoder's test of the frame size
EncoderOverLimit(c, msg) ==
    c.FrameLimit > 0 /\ WideLess(Wide(c.FrameLimit), FrameSize(msg))

\* the ByteBuf the encoder assembles the frame in
Assembled(c, msg) ==
    WriteBytes(WriteBytes(WriteBytes(NewElasticUnsafeByteBuf(Narrow(FrameSize(msg))),
                                     <<c.TagValue>>),
                          BE32(PayloadLength(msg))),
               msg.bytes)

\* frameByteBuf.ReadableBytes() after the three writes
AssembledReadable(c, msg) ==
    IF Wide(Len(msg.bytes)) = msg.len
    THEN Wide(ReadableBytes(Assembled(c, msg)))
    ELSE WideAdd(Wide(TagSize + LengthSize), msg.len)

\* TLVFrameEncoder.Encode: the error it returns ("nil" for none)
TLVEncodeError(c, msg) ==
    IF msg.kind # "bytes" THEN "can not transform input to []byte"
    ELSE IF EncoderOverLimit(c, msg) THEN "frame size larger than limit"
    ELSE IF FrameSize(msg) # AssembledReadable(c, msg) THEN "ByteBuf issue"
    ELSE "nil"

\* TLVFrameEncoder.Encode: the frame it returns when it returns no error
TLVEncode(c, msg) ==
    ReadBytesResult(Assembled(c, msg), ReadableBytes(Assembled(c, msg)))

\* a new TLVFrameDecoder, and resetBuffer()
ResetBuffer ==
    [hasTag |-> FALSE, hasLength |-> FALSE, tagValue |-> 0, lengthValue |-> Wide(0)]

\* no entity
NoEntity == [typeCode |-> 0, data |-> <<>>]

\* what a Decode call returns, with the decoder and the buffer it leaves
DecodeNothing(d, pb) ==
    [result |-> "nil", bytes |-> <<>>, entity |-> NoEntity, dec |-> d, buf |-> pb]

DecodeFailure(d, pb) ==
    [result |-> "err", bytes |-> <<>>, entity |-> NoEntity, dec |-> d, buf |-> pb]

DecodeSuccess(bytes, pb) ==
    [result |-> "msg", bytes |-> bytes, entity |-> NoEntity, dec |-> ResetBuffer,
     buf |-> pb]

\* a decoder that accepts frames of every size
DecoderNoLimit(c, n) == FALSE

\* the decoder's test of the frame size, made on the value it has read
DecoderOverLimit(c, n) == c.FrameLimit > 0 /\ TagSize + LengthSize + n > c.FrameLimit

\* TLVFrameDecoder.Decode
TLVDecode(c, d, pb) ==
    LET needTag == ~d.hasTag
        noTag   == needTag /\ ReadableBytes(pb) < TagSize
        tag     == IF needTag THEN ReadBytesResult(pb, TagSize)[1] ELSE d.tagValue
        pb1     == IF needTag THEN ReadBytes(pb, TagSize) ELSE pb
        badTag  == needTag /\ tag # c.TagValue
        d1      == IF needTag THEN [d EXCEPT !.hasTag = TRUE, !.tagValue = tag] ELSE d
        needLen == ~d1.hasLength
        noLen   == needLen /\ ReadableBytes(pb1) < LengthSize
        length  == IF needLen THEN FromBE32(ReadBytesResult(pb1, LengthSize))
                              ELSE d1.lengthValue
        pb2     == IF needLen THEN ReadBytes(pb1, LengthSize) ELSE pb1
        d2      == IF needLen THEN [d1 EXCEPT !.hasLength = TRUE, !.lengthValue = length]
                              ELSE d1
        noValue == WideLess(Wide(ReadableBytes(pb2)), d2.lengthValue)
        tmpBytes == ReadBytesResult(pb2, Narrow(d2.lengthValue))
        pb3     == ReadBytes(pb2, Narrow(d2.lengthValue))
    IN  IF noTag THEN DecodeNothing(d, pb)
        ELSE IF badTag THEN DecodeFailure(d, pb1)
        ELSE IF noLen THEN DecodeNothing(d1, pb1)
        ELSE IF noValue THEN DecodeNothing(d2, pb2)
        ELSE IF DecoderOverLimit(c, Len(tmpBytes)) THEN DecodeFailure(d2, pb3)
        ELSE DecodeSuccess(tmpBytes, pb3)

\* ------------------------------------------------------------------------
\* Typed codec (ApolloFrameEncoder, ApolloFrameDecoder)
\* ------------------------------------------------------------------------
\* an input of the typed encoder: an ApolloEntity with its type code and its
\* content, or a value of another type
EntityMsg(typeCode, data) == [kind |-> "entity", typeCode |-> typeCode, data |-> data]

OtherEntityMsg == [kind |-> "other", typeCode |-> 0, data |-> <<>>]

\* msgpack.Marshal, an injective serializer: the content behind its length
Marshal(data) == <<Len(data)>> \o data

\* msgpack.Unmarshal fails on bytes that are no serialization
UnmarshalFails(bytes) == bytes = <<>> \/ bytes[1] # Len(bytes) - 1

\* a deserializer that takes the length for content
UnmarshalWhole(bytes) == bytes

\* msgpack.Unmarshal: the content
Unmarshal(bytes) == Tail(bytes)

\* the payload the typed encoder hands to the TLV encoder
ApolloPayload(m) ==
    LET marshaledBytes == Marshal(m.data)
        pb == WriteBytes(WriteBytes(NewElasticUnsafeByteBuf(2 + Len(marshaledBytes)),
                                    BE16(m.typeCode)),
                         marshaledBytes)
    IN  BytesMsg(ReadBytesResult(pb, ReadableBytes(pb)))

\* ApolloFrameEncoder.Encode: the error it returns ("nil" for none)
ApolloEncodeError(c, m) ==
    IF m.kind # "entity" THEN "message is not valid implementation of ApolloEntity interface"
    ELSE TLVEncodeError(c, ApolloPayload(m))

\* ApolloFrameEncoder.Encode: the frame it returns when it returns no error
ApolloEncode(c, m) == TLVEncode(c, ApolloPayload(m))

\* a configuration with a constructor for every type code
RegisteredAll(c, typeCode) == TRUE

\* ApolloConfig.createEntity returns an entity for a registered type code
Registered(c, typeCode) == typeCode \in c.registered

\* ApolloFrameDecoder.Decode
ApolloDecode(c, d, pb) ==
    LET r == TLVDecode(c, d, pb)
        payload == WriteBytes(NewElasticUnsafeByteBuf(Len(r.bytes)), r.bytes)
        typeCode == FromBE16(ReadBytesResult(payload, 2))
        rest == ReadBytes(payload, 2)
        serializedBytes == ReadBytesResult(rest, ReadableBytes(rest))
    IN  IF ReadableBytes(pb) = 0 THEN DecodeNothing(d, pb)
        ELSE IF r.result = "nil" THEN DecodeNothing(r.dec, r.buf)
        ELSE IF r.result = "err" THEN DecodeFailure(r.dec, r.buf)
        ELSE IF ReadableBytes(payload) < 2 THEN DecodeFailure(r.dec, r.buf)
        ELSE IF ~Registered(c, typeCode) THEN DecodeNothing(r.dec, r.buf)
        ELSE IF UnmarshalFails(serializedBytes) THEN DecodeFailure(r.dec, r.buf)
        ELSE [result |-> "msg", bytes |-> <<>>,
              entity |-> [typeCode |-> typeCode, data |-> Unmarshal(serializedBytes)],
              dec |-> r.dec, buf |-> r.buf]

\* no codec in use
NoEncode == [called |-> FALSE, tlv |-> OtherMsg, entity |-> OtherEntityMsg,
             err |-> "nil", frame |-> <<>>]

NoConfig == [codec |-> "none", TagValue |-> 0, FrameLimit |-> 0, registered |-> {}]

CodecOff ==
    /\ cfg = NoConfig
    /\ frames = <<>>
    /\ wire = <<>>
    /\ dec = ResetBuffer
    /\ out = <<>>
    /\ lastEncode = NoEncode

\* ------------------------------------------------------------------------
\* SafeAckManager (peer/ack.go), one key
\* ------------------------------------------------------------------------
\* two callers of InitAck, one of CommitAck, one of WaitAck
AckInitCallers == {"i1", "i2"}

AckCallers == AckInitCallers \cup {"c", "w"}

AckTimeoutError == "ack timeout"

\* what WaitAck returns: the data (0 for nil) and the error
AckResult(data, err) == [data |-> data, err |-> err]

\* WaitAck has not returned
AckPending == AckResult(0, "pending")

\* a new SafeAckManager, nobody calling
AckNew ==
    /\ ackRespChanMap = 0
    /\ ackChans = <<>>
    /\ apc = [p \in AckCallers |-> "idle"]
    /\ aloc = [p \in AckCallers |-> 0]
    /\ ackRes = AckPending
    /\ ackLog = <<>>
    /\ nCommits = 0

\* no ack manager in use
AckOff == AckNew /\ ackTimeout = 0

AcceptWorkers == 1..MaxWorkers

Conns == 1..MaxConns

NoConn == [stage |-> "none", pipe |-> "none", closed |-> FALSE]

\* a new server with an acceptor of p workers, nothing started
ServerNew(p) ==
    /\ srv = [running |-> FALSE, acceptor |-> FALSE, done |-> 0]
    /\ srvMu = "free"
    /\ acc = [parallelism |-> p, running |-> FALSE, workerCounter |-> 0,
              wg |-> 0, done |-> 0, listener |-> "none"]
    /\ accMu = "free"
    /\ group = {}
    /\ conns = [c \in Conns |-> NoConn]
    /\ spc = [t \in {"starter", "stopper"} |-> "idle"]
    /\ wpc = [w \in AcceptWorkers |-> "off"]
    /\ rangeTodo = {}

\* no server in use
ServerOff == ServerNew(1)

ClientThreads == {"starter", "stopper", "watcher", "sender", "syncer"}

\* an error value: its message and the variable it is, "" for a fresh value
ErrorValue(msg, var) == [msg |-> msg, var |-> var]

NoError == ErrorValue("", "")

ClientNotRunningError == ErrorValue("client is not running", "ClientNotRunningError")

\* a new client, nobody calling
ClientNew ==
    /\ cl = [running |-> FALSE, pipeline |-> FALSE, wg |-> 0]
    /\ clMuW = ""
    /\ clMuR = {}
    /\ clPipe = [state |-> "none", queued |-> 0, self |-> FALSE]
    /\ kpc = [t \in ClientThreads |-> "idle"]
    /\ clCall = [api |-> "none", cb |-> FALSE, running |-> FALSE, err |-> NoError,
                 cbErr |-> NoError, panic |-> FALSE, touched |-> FALSE]
    /\ nCalls = 0

\* no client in use
ClientOff == ClientNew

\* the reader worker before its first read
ReaderNew == rd = [pc |-> "Read", received |-> 0, failed |-> FALSE, fedAfter |-> FALSE]

\* no reader over a codec in use
ReaderOff == ReaderNew

\* no component around the pipeline in use
\* who calls Start on the goroutine wrapper
Starters == {"s1", "s2"}

\* NewGoroutine(statement), nobody calling
GoroutineNew ==
    gr = [state |-> goroutineStateNew, mutex |-> "free", wg |-> 0, executed |-> 0,
          spc |-> [t \in Starters |-> "idle"], calls |-> [t \in Starters |-> 0],
          rpc |-> [t \in Starters |-> "none"], started |-> FALSE,
          jpc |-> "idle", jafter |-> FALSE, alive |-> "none", nAlive |-> 0]

\* NewByteSliceBitSet()
NewByteSliceBitSet == [bytes |-> <<>>, wordInUse |-> 0, sets |-> 0]

\* no goroutine wrapper and no BitSet in use
UtilOff == GoroutineNew /\ bs = NewByteSliceBitSet

AroundOff == AckOff /\ ServerOff /\ ClientOff /\ ReaderOff /\ UtilOff

\* no ByteBuf in use
BufOff ==
    /\ buf = NewElasticUnsafeByteBuf(0)
    /\ bufWritten = 0
    /\ bufRead = <<>>
    /\ bufOps = {}
    /\ bufPanic = FALSE

\* ------------------------------------------------------------------------
\* Initial state: a constructed duplexPipeline, before Init
\* ------------------------------------------------------------------------
\* the fields of a constructed duplexPipeline and the threads around it
PipelineNew ==
    /\ state = stateNew
    /\ muW = NoThread
    /\ muR = {}
    /\ inboundDataC = NilChan
    /\ outboundDataC = NilChan
    /\ inboundHandlerStopC = "nil"
    /\ outboundHandlerStopC = "nil"
    /\ connClosed = FALSE
    /\ pc = [t \in Threads |-> IF t \in Callers THEN "idle" ELSE "off"]
    /\ cur = [t \in Threads |-> 0]
    /\ outCur = 0
    /\ emitted = 0
    /\ decErrs = 0
    /\ nextSend = 0
    /\ sendKind = <<>>
    /\ delivered = <<>>
    /\ reading = 0
    /\ cbLog = <<>>
    /\ encodeErrs = {}
    /\ pushLog = <<>>
    /\ wrLog = <<>>
    /\ nActivate = 0
    /\ nInactivate = 0
    /\ stopReturned = {}
    /\ hookAfterStop = {}
    /\ crashed = FALSE

Init ==
    /\ PipelineNew
    /\ env \in Scenarios
    /\ BufOff
    /\ CodecOff
    /\ AroundOff

\* ------------------------------------------------------------------------
\* Lifecycle: Init, Start, Stop
\* ------------------------------------------------------------------------
\* Init acts only in state NEW
InitApplies == state = stateNew

\* duplexPipeline.Init, called by thread t (the whole body runs under Lock)
PipelineInit(t) ==
    /\ pc[t] = "idle"
    /\ CanLock
    /\ IF InitApplies
       THEN /\ inboundDataC' = MakeChan
            /\ outboundDataC' = MakeChan
            /\ inboundHandlerStopC' = "open"
            /\ outboundHandlerStopC' = "open"
            /\ state' = stateReady
       ELSE UNCHANGED <<inboundDataC, outboundDataC, inboundHandlerStopC,
                        outboundHandlerStopC, state>>
    /\ UNCHANGED <<muW, muR, connClosed, tvars, evars, hvars>>
    /\ UNCHANGED xvars

\* a Start that only refuses to start a running pipeline
StartUnlessRunning == state # stateRunning

\* Start acts only in state READY
StartApplies == state = stateReady

\* duplexPipeline.Start, called by thread t (the whole body runs under Lock):
\* the three goroutines are started, each begins at its first statement
Start(t) ==
    /\ pc[t] = "idle"
    /\ CanLock
    /\ IF StartApplies
       THEN /\ pc' = [pc EXCEPT !["reader"] = "ChannelActivate",
                                !["inbound"] = "Select",
                                !["outbound"] = "Select"]
            /\ state' = stateRunning
       ELSE UNCHANGED <<pc, state>>
    /\ UNCHANGED <<muW, muR, inboundDataC, outboundDataC, inboundHandlerStopC,
                   outboundHandlerStopC, connClosed, cur, outCur, evars, hvars>>
    /\ UNCHANGED xvars

\* an application thread calls Pipeline.Stop (or Channel.Close, which is Stop)
StopCall(t) ==
    /\ pc[t] = "idle"
    /\ pc' = [pc EXCEPT ![t] = "Stop_Lock"]
    /\ UNCHANGED <<pvars, cur, outCur, evars, hvars>>
    /\ UNCHANGED xvars

\* Stop acts only in state RUNNING
StopApplies == state = stateRunning

\* what a Stop that does not apply found: a pipeline not started yet, or a
\* stopped one
StopFound == IF state = stateShutdown THEN "stopped" ELSE "unstarted"

\* Stop: Lock, the state check, and the close of both stop signals; a Stop
\* that does not apply unlocks and returns
StopLock(t) ==
    /\ pc[t] = "Stop_Lock"
    /\ CanLock
    /\ IF StopApplies
       THEN /\ muW' = t
            /\ inboundHandlerStopC' = "closed"
            /\ outboundHandlerStopC' = "closed"
            /\ pc' = [pc EXCEPT ![t] = "Stop_JoinInbound"]
            /\ UNCHANGED stopReturned
       ELSE /\ pc' = [pc EXCEPT ![t] = ReturnPc(t)]
            /\ stopReturned' = stopReturned \cup {StopFound}
            /\ UNCHANGED <<muW, inboundHandlerStopC, outboundHandlerStopC>>
    /\ UNCHANGED <<state, muR, inboundDataC, outboundDataC, connClosed, cur, outCur,
                   evars, delivered, reading, cbLog, encodeErrs, pushLog, wrLog,
                   nActivate, nInactivate, hookAfterStop, crashed>>
    /\ UNCHANGED xvars

\* Stop: cp.inboundHandler.Join()
StopJoinInbound(t) ==
    /\ pc[t] = "Stop_JoinInbound"
    /\ Joined("inbound")
    /\ pc' = [pc EXCEPT ![t] = "Stop_JoinOutbound"]
    /\ UNCHANGED <<pvars, cur, outCur, evars, hvars>>
    /\ UNCHANGED xvars

\* a Stop that closes the transport without waiting for the outbound worker
StopClosesConnEarly(t) ==
    /\ pc[t] = "Stop_JoinOutbound"
    /\ connClosed' = TRUE
    /\ pc' = [pc EXCEPT ![t] = "Stop_JoinReader"]
    /\ UNCHANGED <<state, muW, muR, inboundDataC, outboundDataC, inboundHandlerStopC,
                   outboundHandlerStopC, cur, outCur, evars, hvars>>
    /\ UNCHANGED xvars

\* Stop: cp.outboundHandler.Join(), then cp.conn.Close()
StopJoinOutbound(t) ==
    /\ pc[t] = "Stop_JoinOutbound"
    /\ Joined("outbound")
    /\ connClosed' = TRUE
    /\ pc' = [pc EXCEPT ![t] = "Stop_JoinReader"]
    /\ UNCHANGED <<state, muW, muR, inboundDataC, outboundDataC, inboundHandlerStopC,
                   outboundHandlerStopC, cur, outCur, evars, hvars>>
    /\ UNCHANGED xvars

\* Stop: cp.connReadHandler.Join(), close of both queues, the state change,
\* and the deferred Unlock
StopJoinReader(t) ==
    /\ pc[t] = "Stop_JoinReader"
    /\ Joined("reader")
    /\ inboundDataC' = ChanClose(inboundDataC)
    /\ outboundDataC' = ChanClose(outboundDataC)
    /\ state' = stateShutdown
    /\ muW' = NoThread
    /\ pc' = [pc EXCEPT ![t] = ReturnPc(t)]
    /\ stopReturned' = stopReturned \cup {"stopped"}
    /\ UNCHANGED <<muR, inboundHandlerStopC, outboundHandlerStopC, connClosed, cur,
                   outCur, evars, delivered, reading, cbLog, encodeErrs, pushLog,
                   wrLog, nActivate, nInactivate, hookAfterStop, crashed>>
    /\ UNCHANGED xvars

\* ------------------------------------------------------------------------
\* Reader worker: handleConnRead
\* ------------------------------------------------------------------------
\* cp.handler.ChannelActivate (an error it returns goes to ChannelError)
ChannelActivate ==
    /\ pc["reader"] = "ChannelActivate"
    /\ pc' = [pc EXCEPT !["reader"] = "Read"]
    /\ nActivate' = nActivate + 1
    /\ Hook
    /\ UNCHANGED <<pvars, cur, outCur, evars, delivered, reading, cbLog, encodeErrs,
                   pushLog, wrLog, nInactivate, stopReturned, crashed>>
    /\ UNCHANGED xvars

\* cp.conn.Read returns bytes: the peer sent something (it sends only while
\* it has a frame or a malformed frame left to send)
ConnReadData ==
    /\ pc["reader"] = "Read"
    /\ ~connClosed
    /\ emitted < env.msgs \/ decErrs < env.errs
    /\ pc' = [pc EXCEPT !["reader"] = "Decode"]
    /\ UNCHANGED <<pvars, cur, outCur, evars, hvars>>
    /\ UNCHANGED xvars

\* a reader that returns on a read failure without invoking ChannelInactivate
ConnReadFailNoInactivate ==
    /\ pc["reader"] = "Read"
    /\ pc' = [pc EXCEPT !["reader"] = "done",
                        !["stopper"] = "Stop_Lock"]
    /\ UNCHANGED <<pvars, cur, outCur, evars, hvars>>
    /\ UNCHANGED xvars

\* cp.conn.Read fails (the peer is gone, or Stop closed the connection):
\* a detached goroutine is started to run Stop, then ChannelInactivate follows
ConnReadFail ==
    /\ pc["reader"] = "Read"
    /\ pc' = [pc EXCEPT !["reader"] = "ChannelInactivate",
                        !["stopper"] = "Stop_Lock"]
    /\ UNCHANGED <<pvars, cur, outCur, evars, hvars>>
    /\ UNCHANGED xvars

\* cp.decoder.Decode returns a message: it is pushed on the inbound queue,
\* at once when the queue has room, else the reader blocks in the send
DecodeResult ==
    /\ pc["reader"] = "Decode"
    /\ emitted < env.msgs
    /\ emitted' = emitted + 1
    /\ IF inboundDataC.st = "closed"
       THEN /\ crashed' = TRUE
            /\ pc' = Panic
            /\ UNCHANGED inboundDataC
       ELSE IF HasRoom(inboundDataC)
       THEN /\ inboundDataC' = ChanPush(inboundDataC, emitted + 1)
            /\ UNCHANGED <<pc, crashed>>
       ELSE /\ pc' = [pc EXCEPT !["reader"] = "Push"]
            /\ UNCHANGED <<inboundDataC, crashed>>
    /\ UNCHANGED <<state, muW, muR, outboundDataC, inboundHandlerStopC,
                   outboundHandlerStopC, connClosed, cur, outCur, env, decErrs,
                   nextSend, sendKind, delivered, reading, cbLog, encodeErrs, pushLog,
                   wrLog, nActivate, nInactivate, stopReturned, hookAfterStop>>
    /\ UNCHANGED xvars

\* the blocked send cp.inboundDataC <- result completes
ReaderPush ==
    /\ pc["reader"] = "Push"
    /\ HasRoom(inboundDataC)
    /\ inboundDataC' = ChanPush(inboundDataC, emitted)
    /\ pc' = [pc EXCEPT !["reader"] = "Decode"]
    /\ UNCHANGED <<state, muW, muR, outboundDataC, inboundHandlerStopC,
                   outboundHandlerStopC, connClosed, cur, outCur, evars, hvars>>
    /\ UNCHANGED xvars

\* cp.decoder.Decode returns an error: ChannelError, and the loop goes on
DecodeError ==
    /\ pc["reader"] = "Decode"
    /\ decErrs < env.errs
    /\ decErrs' = decErrs + 1
    /\ Hook
    /\ UNCHANGED <<pvars, tvars, env, emitted, nextSend, sendKind, delivered, reading,
                   cbLog, encodeErrs, pushLog, wrLog, nActivate, nInactivate,
                   stopReturned, crashed>>
    /\ UNCHANGED xvars

\* cp.decoder.Decode returns nothing: the loop breaks, back to Read
DecodeNil ==
    /\ pc["reader"] = "Decode"
    /\ pc' = [pc EXCEPT !["reader"] = "Read"]
    /\ UNCHANGED <<pvars, cur, outCur, evars, hvars>>
    /\ UNCHANGED xvars

\* cp.handler.ChannelInactivate, then the reader returns
ChannelInactivate ==
    /\ pc["reader"] = "ChannelInactivate"
    /\ pc' = [pc EXCEPT !["reader"] = "done"]
    /\ nInactivate' = nInactivate + 1
    /\ Hook
    /\ UNCHANGED <<pvars, cur, outCur, evars, delivered, reading, cbLog, encodeErrs,
                   pushLog, wrLog, nActivate, stopReturned, crashed>>
    /\ UNCHANGED xvars

\* ------------------------------------------------------------------------
\* Inbound dispatcher: handleInbound
\* ------------------------------------------------------------------------
\* select takes a message off the inbound queue and calls ChannelRead with it
InboundRecv ==
    /\ pc["inbound"] = "Select"
    /\ inboundDataC.buf # <<>>
    /\ delivered' = Append(delivered, ChanFront(inboundDataC))
    /\ inboundDataC' = ChanPop(inboundDataC)
    /\ reading' = reading + 1
    /\ pc' = [pc EXCEPT !["inbound"] = "ChannelRead"]
    /\ Hook
    /\ UNCHANGED <<state, muW, muR, outboundDataC, inboundHandlerStopC,
                   outboundHandlerStopC, connClosed, cur, outCur, evars, cbLog,
                   encodeErrs, pushLog, wrLog, nActivate, nInactivate, stopReturned,
                   crashed>>
    /\ UNCHANGED xvars

\* select takes the stop signal: the dispatcher returns
InboundStop ==
    /\ pc["inbound"] = "Select"
    /\ inboundHandlerStopC = "closed"
    /\ pc' = [pc EXCEPT !["inbound"] = "done"]
    /\ UNCHANGED <<pvars, cur, outCur, evars, hvars>>
    /\ UNCHANGED xvars

\* the handler's ChannelRead calls channel.Close(), that is Pipeline.Stop
HandlerClose ==
    /\ pc["inbound"] = "ChannelRead"
    /\ env.handler = "close"
    /\ pc' = [pc EXCEPT !["inbound"] = "Stop_Lock"]
    /\ UNCHANGED <<pvars, cur, outCur, evars, hvars>>
    /\ UNCHANGED xvars

\* the handler's ChannelRead calls channel.Send(ack), which starts with
\* pipeline.IsRunning()
HandlerSend ==
    /\ pc["inbound"] = "ChannelRead"
    /\ env.handler = "send"
    /\ pc' = [pc EXCEPT !["inbound"] = "IsRunning"]
    /\ UNCHANGED <<pvars, cur, outCur, evars, hvars>>
    /\ UNCHANGED xvars

\* ChannelRead returns (at once for a handler that calls nothing); an error
\* it returns goes to ChannelError
ChannelReadReturn ==
    /\ \/ pc["inbound"] = "ChannelRead" /\ env.handler = "plain"
       \/ pc["inbound"] = "ChannelRead_ret"
    /\ pc' = [pc EXCEPT !["inbound"] = "Select"]
    /\ reading' = reading - 1
    /\ \E err \in BOOLEAN : IF err THEN Hook ELSE NoHook
    /\ UNCHANGED <<pvars, cur, outCur, evars, delivered, cbLog, encodeErrs, pushLog,
                   wrLog, nActivate, nInactivate, stopReturned, crashed>>
    /\ UNCHANGED xvars

\* ------------------------------------------------------------------------
\* Sending: Channel.Send, Pipeline.Send, Pipeline.SendFuture
\* ------------------------------------------------------------------------
\* pipelineChannel.Send in thread t: IsRunning (RLock, read, RUnlock), then
\* pipeline.Send when running, else ErrInvalidChannel is returned
IsRunning(t) ==
    /\ pc[t] = "IsRunning"
    /\ CanRLock
    /\ IF state = stateRunning
       THEN /\ nextSend' = nextSend + 1
            /\ sendKind' = Append(sendKind, "send")
            /\ cur' = [cur EXCEPT ![t] = nextSend + 1]
            /\ pc' = [pc EXCEPT ![t] = "SendFuture"]
       ELSE /\ pc' = [pc EXCEPT ![t] = ReturnPc(t)]
            /\ UNCHANGED <<nextSend, sendKind, cur>>
    /\ UNCHANGED <<pvars, outCur, env, emitted, decErrs, hvars>>
    /\ UNCHANGED xvars

\* an application thread calls channel.Send(msg), msg # nil
CallChannelSend(t) ==
    /\ pc[t] = "idle"
    /\ env.api = "ChannelSend"
    /\ nextSend < env.sends
    /\ pc' = [pc EXCEPT ![t] = "IsRunning"]
    /\ UNCHANGED <<pvars, cur, outCur, evars, hvars>>
    /\ UNCHANGED xvars

\* an application thread calls pipeline.SendFuture(msg, callback), msg # nil
CallSendFuture(t) ==
    /\ pc[t] = "idle"
    /\ env.api = "SendFuture"
    /\ nextSend < env.sends
    /\ nextSend' = nextSend + 1
    /\ sendKind' = Append(sendKind, "user")
    /\ cur' = [cur EXCEPT ![t] = nextSend + 1]
    /\ pc' = [pc EXCEPT ![t] = "SendFuture"]
    /\ UNCHANGED <<pvars, outCur, env, emitted, decErrs, hvars>>
    /\ UNCHANGED xvars

\* an application thread calls pipeline.SendFuture(msg, nil), msg # nil
CallSendFutureNoCallback(t) ==
    /\ pc[t] = "idle"
    /\ env.api = "SendFutureNoCallback"
    /\ cur' = [cur EXCEPT ![t] = 0]
    /\ pc' = [pc EXCEPT ![t] = "SendFuture"]
    /\ UNCHANGED <<pvars, outCur, evars, hvars>>
    /\ UNCHANGED xvars

\* an application thread calls pipeline.Send(msg): SendFuture with a callback
\* that fills sendResultChan, then a receive from sendResultChan.
\* SendFuture returns at once for msg = nil.
CallSend(t, nilMsg) ==
    /\ pc[t] = "idle"
    /\ env.api = "Send"
    /\ nextSend < env.sends
    /\ nextSend' = nextSend + 1
    /\ sendKind' = Append(sendKind, IF nilMsg THEN "sendnil" ELSE "send")
    /\ cur' = [cur EXCEPT ![t] = nextSend + 1]
    /\ pc' = [pc EXCEPT ![t] = IF nilMsg THEN "Send_wait" ELSE "SendFuture"]
    /\ UNCHANGED <<pvars, outCur, env, emitted, decErrs, hvars>>
    /\ UNCHANGED xvars

\* where thread t goes when SendFuture returns: Send waits for its result
AfterSendFuture(t) ==
    IF cur[t] # 0 /\ sendKind[cur[t]] = "send" THEN "Send_wait" ELSE ReturnPc(t)

\* the call's send id is dropped when the call is over
CurAfterSendFuture(t) ==
    IF AfterSendFuture(t) = "Send_wait" THEN cur ELSE [cur EXCEPT ![t] = 0]

\* SendFuture's test before the synchronous callback
NotRunning == state # stateRunning

\* SendFuture's test before the push
QueueExists == outboundDataC.st # "nil"

\* duplexPipeline.SendFuture from RLock on: the synchronous callback when the
\* pipeline is not running, then the push whenever the queue exists. The push
\* panics on a closed queue, and blocks under the read lock on a full one.
SendFuture(t) ==
    /\ pc[t] = "SendFuture"
    /\ CanRLock
    /\ IF NotRunning /\ cur[t] # 0
       THEN cbLog' = Append(cbLog, <<cur[t], t, ErrPipelineClosed>>)
       ELSE cbLog' = cbLog
    /\ IF ~QueueExists
       THEN /\ pc' = [pc EXCEPT ![t] = AfterSendFuture(t)]
            /\ cur' = CurAfterSendFuture(t)
            /\ UNCHANGED <<outboundDataC, pushLog, muR, crashed>>
       ELSE IF outboundDataC.st = "closed"
       THEN /\ crashed' = TRUE
            /\ pc' = Panic
            /\ UNCHANGED <<outboundDataC, pushLog, muR, cur>>
       ELSE IF HasRoom(outboundDataC)
       THEN /\ outboundDataC' = ChanPush(outboundDataC, cur[t])
            /\ pushLog' = IF cur[t] = 0 THEN pushLog ELSE Append(pushLog, cur[t])
            /\ pc' = [pc EXCEPT ![t] = AfterSendFuture(t)]
            /\ cur' = CurAfterSendFuture(t)
            /\ UNCHANGED <<muR, crashed>>
       ELSE /\ muR' = muR \cup {t}
            /\ pc' = [pc EXCEPT ![t] = "SendFuture_push"]
            /\ UNCHANGED <<outboundDataC, pushLog, crashed, cur>>
    /\ UNCHANGED <<state, muW, inboundDataC, inboundHandlerStopC,
                   outboundHandlerStopC, connClosed, outCur, evars, delivered,
                   reading, encodeErrs, wrLog, nActivate, nInactivate, stopReturned,
                   hookAfterStop>>
    /\ UNCHANGED xvars

\* the blocked send cp.outboundDataC <- entry completes, then RUnlock
SendFuturePush(t) ==
    /\ pc[t] = "SendFuture_push"
    /\ HasRoom(outboundDataC)
    /\ outboundDataC' = ChanPush(outboundDataC, cur[t])
    /\ pushLog' = IF cur[t] = 0 THEN pushLog ELSE Append(pushLog, cur[t])
    /\ muR' = muR \ {t}
    /\ pc' = [pc EXCEPT ![t] = AfterSendFuture(t)]
    /\ cur' = CurAfterSendFuture(t)
    /\ UNCHANGED <<state, muW, inboundDataC, inboundHandlerStopC,
                   outboundHandlerStopC, connClosed, outCur, evars, delivered,
                   reading, cbLog, encodeErrs, wrLog, nActivate, nInactivate,
                   stopReturned, hookAfterStop, crashed>>
    /\ UNCHANGED xvars

\* Send: the receive from sendResultChan returns once the callback has run
SendReturn(t) ==
    /\ pc[t] = "Send_wait"
    /\ Fired(cur[t])
    /\ pc' = [pc EXCEPT ![t] = ReturnPc(t)]
    /\ cur' = [cur EXCEPT ![t] = 0]
    /\ UNCHANGED <<pvars, outCur, evars, hvars>>
    /\ UNCHANGED xvars

\* ------------------------------------------------------------------------
\* Outbound worker: handleOutbound
\* ------------------------------------------------------------------------
\* select takes an entry off the outbound queue
OutboundRecv ==
    /\ pc["outbound"] = "Select"
    /\ outboundDataC.buf # <<>>
    /\ outCur' = ChanFront(outboundDataC)
    /\ outboundDataC' = ChanPop(outboundDataC)
    /\ pc' = [pc EXCEPT !["outbound"] = "Encode"]
    /\ UNCHANGED <<state, muW, muR, inboundDataC, inboundHandlerStopC,
                   outboundHandlerStopC, connClosed, cur, evars, hvars>>
    /\ UNCHANGED xvars

\* select takes the stop signal: the worker returns
OutboundStop ==
    /\ pc["outbound"] = "Select"
    /\ outboundHandlerStopC = "closed"
    /\ pc' = [pc EXCEPT !["outbound"] = "done"]
    /\ UNCHANGED <<pvars, cur, outCur, evars, hvars>>
    /\ UNCHANGED xvars

\* Encode fails: ChannelError, the callback gets the error, nothing is written
OutboundEncodeFail ==
    /\ pc["outbound"] = "Encode"
    /\ Hook
    /\ encodeErrs' = IF outCur = 0 THEN encodeErrs ELSE encodeErrs \cup {outCur}
    /\ Callback(outCur, "outbound", ErrEncode)
    /\ pc' = IF crashed' THEN Panic ELSE [pc EXCEPT !["outbound"] = "Select"]
    /\ outCur' = 0
    /\ UNCHANGED <<pvars, cur, evars, delivered, reading, pushLog, wrLog,
                   nActivate, nInactivate, stopReturned>>
    /\ UNCHANGED xvars

\* Encode succeeds and cp.conn.Write is called; the callback gets its result
OutboundWrite(ok) ==
    /\ pc["outbound"] = "Encode"
    /\ ok => ~connClosed
    /\ wrLog' = IF ok /\ outCur # 0 THEN Append(wrLog, outCur) ELSE wrLog
    /\ Callback(outCur, "outbound", IF ok THEN NoErr ELSE ErrWrite)
    /\ pc' = IF crashed' THEN Panic ELSE [pc EXCEPT !["outbound"] = "Select"]
    /\ outCur' = 0
    /\ UNCHANGED <<pvars, cur, evars, delivered, reading, encodeErrs, pushLog,
                   nActivate, nInactivate, stopReturned, hookAfterStop>>
    /\ UNCHANGED xvars

\* ------------------------------------------------------------------------
\* Specification
\* ------------------------------------------------------------------------
\* steps a thread takes by itself once it runs (the Go scheduler runs every
\* runnable goroutine); a Read returns by itself once the connection is closed
Proceed(t) ==
    \/ StopLock(t)
    \/ StopJoinInbound(t)
    \/ StopJoinOutbound(t)
    \/ StopJoinReader(t)
    \/ IsRunning(t)
    \/ SendFuture(t)
    \/ SendFuturePush(t)
    \/ SendReturn(t)
    \/ t = "reader" /\ (ChannelActivate \/ (connClosed /\ ConnReadFail) \/ DecodeNil
                          \/ ReaderPush \/ ChannelInactivate)
    \/ t = "inbound" /\ (InboundRecv \/ InboundStop \/ HandlerClose \/ HandlerSend
                           \/ ChannelReadReturn)
    \/ t = "outbound" /\ (OutboundRecv \/ OutboundStop \/ OutboundEncodeFail
                            \/ \E ok \in BOOLEAN : OutboundWrite(ok))

Next ==
    \/ \E t \in Callers : PipelineInit(t)
    \/ \E t \in Callers : Start(t)
    \/ \E t \in Callers : StopCall(t)
    \/ \E t \in Threads : StopLock(t)
    \/ \E t \in Threads : StopJoinInbound(t)
    \/ \E t \in Threads : StopJoinOutbound(t)
    \/ \E t \in Threads : StopJoinReader(t)
    \/ ChannelActivate
    \/ ConnReadData
    \/ ConnReadFail
    \/ DecodeResult
    \/ ReaderPush
    \/ DecodeError
    \/ DecodeNil
    \/ ChannelInactivate
    \/ InboundRecv
    \/ InboundStop
    \/ HandlerClose
    \/ HandlerSend
    \/ ChannelReadReturn
    \/ \E t \in Threads : IsRunning(t)
    \/ \E t \in Callers : CallChannelSend(t)
    \/ \E t \in Callers : CallSendFuture(t)
    \/ \E t \in Callers : CallSendFutureNoCallback(t)
    \/ \E t \in Callers, nilMsg \in BOOLEAN : CallSend(t, nilMsg)
    \/ \E t \in Threads : SendFuture(t)
    \/ \E t \in Threads : SendFuturePush(t)
    \/ \E t \in Threads : SendReturn(t)
    \/ OutboundRecv
    \/ OutboundStop
    \/ OutboundEncodeFail
    \/ \E ok \in BOOLEAN : OutboundWrite(ok)

Spec == Init /\ [][Next]_vars

\* every goroutine that can take a step eventually takes one
Fairness == \A t \in Threads : WF_vars(Proceed(t))

FairSpec == Spec /\ Fairness

\* ------------------------------------------------------------------------
\* ByteBuf on its own: a caller applies its methods in any order
\* ------------------------------------------------------------------------
\* a pipeline that takes no part
NoScenario ==
    [handler |-> "plain", msgs |-> 0, errs |-> 0, sends |-> 0, api |-> "none"]

PipelineOff ==
    /\ PipelineNew
    /\ env = NoScenario

BufInit ==
    /\ PipelineOff
    /\ \E initSize \in 0..MaxInitSize : buf = NewElasticUnsafeByteBuf(initSize)
    /\ bufWritten = 0
    /\ bufRead = <<>>
    /\ bufOps = {}
    /\ bufPanic = FALSE
    /\ CodecOff
    /\ AroundOff

\* pb.WriteBytes(bytes) with n fresh bytes
BufWriteBytes(n) ==
    /\ ~bufPanic
    /\ bufWritten + n <= MaxBufBytes
    /\ LET bytes == [i \in 1..n |-> bufWritten + i]
       IN  IF WriteBytesPanics(buf, bytes)
           THEN bufPanic' = TRUE /\ UNCHANGED buf
           ELSE buf' = WriteBytes(buf, bytes) /\ UNCHANGED bufPanic
    /\ bufWritten' = bufWritten + n
    /\ UNCHANGED <<bufRead, bufOps>>
    /\ UNCHANGED <<pvars, tvars, evars, hvars, cvars, yvars>>

\* pb.ReadBytes(n)
BufReadBytes(n) ==
    /\ ~bufPanic
    /\ Len(bufRead) + n <= MaxBufBytes
    /\ IF ReadBytesPanics(buf, n)
       THEN bufPanic' = TRUE /\ UNCHANGED <<buf, bufRead>>
       ELSE /\ buf' = ReadBytes(buf, n)
            /\ bufRead' = bufRead \o ReadBytesResult(buf, n)
            /\ UNCHANGED bufPanic
    /\ bufOps' = bufOps \cup (IF n < 0 THEN {"ReadBytes(negative)"} ELSE {})
                        \cup (IF n > ReadableBytes(buf) THEN {"ReadBytes(beyond)"} ELSE {})
    /\ UNCHANGED bufWritten
    /\ UNCHANGED <<pvars, tvars, evars, hvars, cvars, yvars>>

\* pb.Release()
BufRelease ==
    /\ ~bufPanic
    /\ IF ReleasePanics(buf)
       THEN bufPanic' = TRUE /\ UNCHANGED buf
       ELSE buf' = Release(buf) /\ UNCHANGED bufPanic
    /\ UNCHANGED <<bufWritten, bufRead, bufOps>>
    /\ UNCHANGED <<pvars, tvars, evars, hvars, cvars, yvars>>

\* pb.Reset()
BufReset ==
    /\ ~bufPanic
    /\ buf' = Reset(buf)
    /\ bufOps' = bufOps \cup {"Reset"}
    /\ UNCHANGED <<bufWritten, bufRead, bufPanic>>
    /\ UNCHANGED <<pvars, tvars, evars, hvars, cvars, yvars>>

BufNext ==
    \/ \E n \in 0..MaxWrite : BufWriteBytes(n)
    \/ \E n \in -1..MaxWrite : BufReadBytes(n)
    \/ BufRelease
    \/ BufReset

BufSpec == BufInit /\ [][BufNext]_vars

\* ------------------------------------------------------------------------
\* The codecs over one ByteBuf: frames are encoded or written by the peer,
\* arrive in chunks, and are decoded
\* ------------------------------------------------------------------------
\* the tag of the configuration (TestTLVCodec), and another byte
TagValues == {170, 85}

FrameLimits == {0, 4, 6, 8}

CodecConfigs ==
    {[codec |-> k, TagValue |-> 170, FrameLimit |-> l,
      registered |-> IF k = "apollo" THEN {1} ELSE {}] :
        k \in {"tlv", "apollo"}, l \in FrameLimits}

\* lengths of payloads around the range of uint32
LargeLens ==
    {[hi |-> 65535, lo |-> 65531], [hi |-> 65535, lo |-> 65535], [hi |-> 65536, lo |-> 0]}

TLVInputs ==
    {BytesMsg(b) : b \in {<<>>, <<170>>, <<1, 170>>}}
        \cup {LargeBytesMsg(n) : n \in LargeLens} \cup {OtherMsg}

ApolloInputs ==
    {EntityMsg(t, d) : t \in {1, 2}, d \in {<<>>, <<7>>}} \cup {OtherEntityMsg}

\* values of frames the peer writes itself
RawValues ==
    IF cfg.codec = "tlv" THEN {<<>>, <<1, 170>>} ELSE {<<>>, <<0>>, <<0, 1, 9>>}

CodecInit ==
    /\ PipelineOff
    /\ \E initSize \in 0..MaxInitSize : buf = NewElasticUnsafeByteBuf(initSize)
    /\ bufWritten = 0
    /\ bufRead = <<>>
    /\ bufOps = {}
    /\ bufPanic = FALSE
    /\ cfg \in CodecConfigs
    /\ frames = <<>>
    /\ wire = <<>>
    /\ dec = ResetBuffer
    /\ out = <<>>
    /\ lastEncode = NoEncode
    /\ AroundOff

\* encoder.Encode(msg) of the TLV encoder; the frame it returns goes on the wire
TLVEncoderEncode(msg) ==
    /\ cfg.codec = "tlv"
    /\ Len(frames) < MaxFrames
    /\ LET err == TLVEncodeError(cfg, msg)
           frame == IF err = "nil" THEN TLVEncode(cfg, msg) ELSE <<>>
       IN  /\ lastEncode' = [called |-> TRUE, tlv |-> msg, entity |-> OtherEntityMsg,
                             err |-> err, frame |-> frame]
           /\ IF err = "nil"
              THEN /\ wire' = wire \o frame
                   /\ frames' = Append(frames, [how |-> "encoded", tag |-> cfg.TagValue,
                                                value |-> msg.bytes, entity |-> NoEntity,
                                                size |-> Len(frame)])
              ELSE UNCHANGED <<wire, frames>>
    /\ UNCHANGED <<cfg, dec, out, bvars, pvars, tvars, evars, hvars, yvars>>

\* encoder.Encode(msg) of the typed encoder; the frame it returns goes on the wire
ApolloEncoderEncode(m) ==
    /\ cfg.codec = "apollo"
    /\ Len(frames) < MaxFrames
    /\ LET err == ApolloEncodeError(cfg, m)
           frame == IF err = "nil" THEN ApolloEncode(cfg, m) ELSE <<>>
       IN  /\ lastEncode' = [called |-> TRUE, tlv |-> OtherMsg, entity |-> m,
                             err |-> err, frame |-> frame]
           /\ IF err = "nil"
              THEN /\ wire' = wire \o frame
                   /\ frames' = Append(frames, [how |-> "encoded", tag |-> cfg.TagValue,
                                                value |-> ApolloPayload(m).bytes,
                                                entity |-> [typeCode |-> m.typeCode,
                                                            data |-> m.data],
                                                size |-> Len(frame)])
              ELSE UNCHANGED <<wire, frames>>
    /\ UNCHANGED <<cfg, dec, out, bvars, pvars, tvars, evars, hvars, yvars>>

\* the peer writes a frame of its own: a tag, the length of the value, the value
PeerWritesFrame(tag, value) ==
    /\ Len(frames) < MaxFrames
    /\ wire' = wire \o <<tag>> \o BE32(Wide(Len(value))) \o value
    /\ frames' = Append(frames, [how |-> "raw", tag |-> tag, value |-> value,
                                 entity |-> NoEntity,
                                 size |-> TagSize + LengthSize + Len(value)])
    /\ UNCHANGED <<cfg, dec, out, lastEncode, bvars, pvars, tvars, evars, hvars, yvars>>

\* the next n bytes of the stream arrive: byteBuffer.WriteBytes(chunk)
AppendChunk(n) ==
    /\ n <= Len(wire)
    /\ buf' = WriteBytes(buf, SubSeq(wire, 1, n))
    /\ wire' = SubSeq(wire, n + 1, Len(wire))
    /\ UNCHANGED <<bufWritten, bufRead, bufOps, bufPanic>>
    /\ UNCHANGED <<cfg, frames, dec, out, lastEncode, pvars, tvars, evars, hvars, yvars>>

\* what a Decode call adds to the results
Returned(r) == [result |-> r.result, bytes |-> r.bytes, entity |-> r.entity]

\* decoder.Decode(byteBuffer) of the TLV decoder
TLVDecoderDecode ==
    /\ cfg.codec = "tlv"
    /\ Len(out) < MaxResults
    /\ LET r == TLVDecode(cfg, dec, buf)
       IN  /\ dec' = r.dec
           /\ buf' = r.buf
           /\ out' = IF r.result = "nil" THEN out ELSE Append(out, Returned(r))
    /\ UNCHANGED <<bufWritten, bufRead, bufOps, bufPanic>>
    /\ UNCHANGED <<cfg, frames, wire, lastEncode, pvars, tvars, evars, hvars, yvars>>

\* decoder.Decode(byteBuffer) of the typed decoder
ApolloDecoderDecode ==
    /\ cfg.codec = "apollo"
    /\ Len(out) < MaxResults
    /\ LET r == ApolloDecode(cfg, dec, buf)
       IN  /\ dec' = r.dec
           /\ buf' = r.buf
           /\ out' = IF r.result = "nil" THEN out ELSE Append(out, Returned(r))
    /\ UNCHANGED <<bufWritten, bufRead, bufOps, bufPanic>>
    /\ UNCHANGED <<cfg, frames, wire, lastEncode, pvars, tvars, evars, hvars, yvars>>

CodecNext ==
    \/ \E msg \in TLVInputs : TLVEncoderEncode(msg)
    \/ \E m \in ApolloInputs : ApolloEncoderEncode(m)
    \/ \E tag \in TagValues, value \in RawValues : PeerWritesFrame(tag, value)
    \/ \E n \in 1..MaxChunk : AppendChunk(n)
    \/ TLVDecoderDecode
    \/ ApolloDecoderDecode

CodecSpec == CodecInit /\ [][CodecNext]_vars

\* ------------------------------------------------------------------------
\* The ack manager: callers of InitAck, CommitAck and WaitAck on one key
\* ------------------------------------------------------------------------
AckInit ==
    /\ PipelineOff
    /\ BufOff
    /\ CodecOff
    /\ AckNew
    /\ ackTimeout \in {0, 1}
    /\ ServerOff
    /\ ClientOff
    /\ ReaderOff
    /\ UtilOff

AckIdleRest == UNCHANGED <<pvars, tvars, evars, hvars, bvars, cvars, svars, kvars, rvars, uvars>>

AckLogged(e) == ackLog' = Append(ackLog, e)

\* InitAck: m.ackRespChanMap.Load(key)
InitAckLoad(p) ==
    /\ apc[p] = "idle"
    /\ aloc' = [aloc EXCEPT ![p] = ackRespChanMap]
    /\ IF ackRespChanMap = 0
       THEN apc' = [apc EXCEPT ![p] = "Store"] /\ UNCHANGED ackLog
       ELSE apc' = [apc EXCEPT ![p] = "done"] /\ AckLogged(<<"init", p>>)
    /\ UNCHANGED <<ackRespChanMap, ackChans, ackRes, ackTimeout, nCommits>>
    /\ AckIdleRest

\* InitAck: m.ackRespChanMap.Store(key, make(ackRespChan, 2))
InitAckStore(p) ==
    /\ apc[p] = "Store"
    /\ ackChans' = Append(ackChans, <<>>)
    /\ ackRespChanMap' = Len(ackChans) + 1
    /\ apc' = [apc EXCEPT ![p] = "done"]
    /\ AckLogged(<<"init", p>>)
    /\ UNCHANGED <<aloc, ackRes, ackTimeout, nCommits>>
    /\ AckIdleRest

\* CommitAck: m.ackRespChanMap.Load(key); without an entry the call returns
CommitAckLoad ==
    /\ apc["c"] = "idle"
    /\ nCommits < MaxCommits
    /\ nCommits' = nCommits + 1
    /\ aloc' = [aloc EXCEPT !["c"] = ackRespChanMap]
    /\ IF ackRespChanMap = 0
       THEN UNCHANGED apc /\ AckLogged(<<"drop", nCommits + 1>>)
       ELSE apc' = [apc EXCEPT !["c"] = "Send"] /\ UNCHANGED ackLog
    /\ UNCHANGED <<ackRespChanMap, ackChans, ackRes, ackTimeout>>
    /\ AckIdleRest

\* CommitAck: ackRespChan <- ackRespEntity{data: data, err: nil}
CommitAckSend ==
    /\ apc["c"] = "Send"
    /\ Len(ackChans[aloc["c"]]) < ackRespChanSize
    /\ ackChans' = [ackChans EXCEPT ![aloc["c"]] = Append(@, nCommits)]
    /\ apc' = [apc EXCEPT !["c"] = "idle"]
    /\ AckLogged(<<"send", nCommits>>)
    /\ UNCHANGED <<ackRespChanMap, aloc, ackRes, ackTimeout, nCommits>>
    /\ AckIdleRest

\* WaitAck: m.ackRespChanMap.Load(key); without an entry it returns (nil, nil)
WaitAckLoad ==
    /\ apc["w"] = "idle"
    /\ aloc' = [aloc EXCEPT !["w"] = ackRespChanMap]
    /\ IF ackRespChanMap = 0
       THEN /\ apc' = [apc EXCEPT !["w"] = "done"]
            /\ ackRes' = AckResult(0, "nil")
            /\ AckLogged(<<"waited", 0>>)
       ELSE /\ apc' = [apc EXCEPT !["w"] = "Select"]
            /\ UNCHANGED ackRes
            /\ AckLogged(<<"wait", ackRespChanMap>>)
    /\ UNCHANGED <<ackRespChanMap, ackChans, ackTimeout, nCommits>>
    /\ AckIdleRest

\* WaitAck takes the last value of the channel
WaitAckReceiveLast ==
    /\ apc["w"] = "Select"
    /\ ackChans[aloc["w"]] # <<>>
    /\ ackRes' = AckResult(ackChans[aloc["w"]][Len(ackChans[aloc["w"]])], "nil")
    /\ ackChans' = [ackChans EXCEPT ![aloc["w"]] = SubSeq(@, 1, Len(@) - 1)]
    /\ apc' = [apc EXCEPT !["w"] = "Delete"]
    /\ AckLogged(<<"recv", aloc["w"]>>)
    /\ UNCHANGED <<ackRespChanMap, aloc, ackTimeout, nCommits>>
    /\ AckIdleRest

\* WaitAck: case respEntity := <-ackRespChan
WaitAckReceive ==
    /\ apc["w"] = "Select"
    /\ ackChans[aloc["w"]] # <<>>
    /\ ackRes' = AckResult(Head(ackChans[aloc["w"]]), "nil")
    /\ ackChans' = [ackChans EXCEPT ![aloc["w"]] = Tail(@)]
    /\ apc' = [apc EXCEPT !["w"] = "Delete"]
    /\ AckLogged(<<"recv", aloc["w"]>>)
    /\ UNCHANGED <<ackRespChanMap, aloc, ackTimeout, nCommits>>
    /\ AckIdleRest

\* WaitAck: case <-timerChan, for a timeout > 0. The timer of a positive
\* duration fires while the select is blocked, that is on an empty channel.
WaitAckTimeout ==
    /\ apc["w"] = "Select"
    /\ ackTimeout > 0
    /\ ackChans[aloc["w"]] = <<>>
    /\ ackRes' = AckResult(0, AckTimeoutError)
    /\ apc' = [apc EXCEPT !["w"] = "Delete"]
    /\ AckLogged(<<"timeout", aloc["w"]>>)
    /\ UNCHANGED <<ackRespChanMap, ackChans, aloc, ackTimeout, nCommits>>
    /\ AckIdleRest

\* WaitAck returns and leaves the entry in the map
WaitAckKeepsEntry ==
    /\ apc["w"] = "Delete"
    /\ apc' = [apc EXCEPT !["w"] = "done"]
    /\ AckLogged(<<"waited", aloc["w"]>>)
    /\ UNCHANGED <<ackRespChanMap, ackChans, aloc, ackRes, ackTimeout, nCommits>>
    /\ AckIdleRest

\* WaitAck: defer m.ackRespChanMap.Delete(key), and the return
WaitAckDelete ==
    /\ apc["w"] = "Delete"
    /\ ackRespChanMap' = 0
    /\ apc' = [apc EXCEPT !["w"] = "done"]
    /\ AckLogged(<<"waited", aloc["w"]>>)
    /\ UNCHANGED <<ackChans, aloc, ackRes, ackTimeout, nCommits>>
    /\ AckIdleRest

AckNext ==
    \/ \E p \in AckInitCallers : InitAckLoad(p)
    \/ \E p \in AckInitCallers : InitAckStore(p)
    \/ CommitAckLoad
    \/ CommitAckSend
    \/ WaitAckLoad
    \/ WaitAckReceive
    \/ WaitAckTimeout
    \/ WaitAckDelete

AckSpec == AckInit /\ [][AckNext]_vars

\* a call that has begun goes on when it can; nobody is bound to call
AckFairness ==
    /\ \A p \in AckInitCallers : WF_vars(InitAckStore(p))
    /\ WF_vars(CommitAckSend)
    /\ WF_vars(WaitAckReceive)
    /\ WF_vars(WaitAckTimeout)
    /\ WF_vars(WaitAckDelete)

AckFairSpec == AckSpec /\ AckFairness

\* A caller of InitAck goes on to WaitAck on the same key, as the sender of
\* a new request does.
\* WaitAck: m.ackRespChanMap.Load(key); without an entry it returns (nil, nil)
NextWaitAckLoad(p) ==
    /\ apc[p] = "done"
    /\ aloc' = [aloc EXCEPT ![p] = ackRespChanMap]
    /\ apc' = [apc EXCEPT ![p] = IF ackRespChanMap = 0 THEN "nil" ELSE "Select"]
    /\ UNCHANGED <<ackRespChanMap, ackChans, ackRes, ackLog, ackTimeout, nCommits>>
    /\ AckIdleRest

\* WaitAck: case respEntity := <-ackRespChan
NextWaitAckReceive(p) ==
    /\ apc[p] = "Select"
    /\ ackChans[aloc[p]] # <<>>
    /\ ackChans' = [ackChans EXCEPT ![aloc[p]] = Tail(@)]
    /\ apc' = [apc EXCEPT ![p] = "Delete"]
    /\ UNCHANGED <<ackRespChanMap, aloc, ackRes, ackLog, ackTimeout, nCommits>>
    /\ AckIdleRest

\* WaitAck: case <-timerChan, for a timeout > 0
NextWaitAckTimeout(p) ==
    /\ apc[p] = "Select"
    /\ ackTimeout > 0
    /\ ackChans[aloc[p]] = <<>>
    /\ apc' = [apc EXCEPT ![p] = "Delete"]
    /\ UNCHANGED <<ackRespChanMap, ackChans, aloc, ackRes, ackLog, ackTimeout, nCommits>>
    /\ AckIdleRest

\* WaitAck: defer m.ackRespChanMap.Delete(key), and the return
NextWaitAckDelete(p) ==
    /\ apc[p] = "Delete"
    /\ ackRespChanMap' = 0
    /\ apc' = [apc EXCEPT ![p] = "returned"]
    /\ UNCHANGED <<ackChans, aloc, ackRes, ackLog, ackTimeout, nCommits>>
    /\ AckIdleRest

AckReuseNext ==
    \/ \E p \in AckInitCallers : InitAckLoad(p)
    \/ \E p \in AckInitCallers : InitAckStore(p)
    \/ CommitAckLoad
    \/ CommitAckSend
    \/ WaitAckLoad
    \/ WaitAckReceive
    \/ WaitAckTimeout
    \/ WaitAckDelete
    \/ \E p \in AckInitCallers : NextWaitAckLoad(p)
    \/ \E p \in AckInitCallers : NextWaitAckReceive(p)
    \/ \E p \in AckInitCallers : NextWaitAckTimeout(p)
    \/ \E p \in AckInitCallers : NextWaitAckDelete(p)

AckReuseSpec == AckInit /\ [][AckReuseNext]_vars

\* ------------------------------------------------------------------------
\* The server (tcp/server.go) with its acceptor (bind.parallelAcceptor) and
\* its channel group; the pipeline of a connection is kept as its state
\* ------------------------------------------------------------------------
ServerInit ==
    /\ PipelineOff
    /\ BufOff
    /\ CodecOff
    /\ AckOff
    /\ ClientOff
    /\ ReaderOff
    /\ UtilOff
    /\ \E p \in 1..MaxWorkers : ServerNew(p)

ServerIdleRest == UNCHANGED <<pvars, tvars, evars, hvars, bvars, cvars, avars, kvars, rvars, uvars>>

\* Server.Start up to acceptor.Start: the listener is open, the acceptor
\* takes its mutex and adds 1 to its wait group
ServerStart ==
    /\ spc["starter"] = "idle"
    /\ srvMu = "free"
    /\ ~srv.running
    /\ accMu = "free"
    /\ ~acc.running
    /\ srvMu' = "start"
    /\ accMu' = "start"
    /\ acc' = [acc EXCEPT !.listener = "open", !.wg = @ + 1]
    /\ spc' = [spc EXCEPT !["starter"] = "Spawn"]
    /\ UNCHANGED <<srv, group, conns, wpc, rangeTodo>>
    /\ ServerIdleRest

\* acceptor.Start: the loop starts the next worker and counts it
AcceptorSpawn(w) ==
    /\ spc["starter"] = "Spawn"
    /\ w = acc.workerCounter + 1
    /\ w <= acc.parallelism
    /\ wpc' = [wpc EXCEPT ![w] = "Accept"]
    /\ acc' = [acc EXCEPT !.workerCounter = @ + 1]
    /\ UNCHANGED <<srv, srvMu, accMu, group, conns, spc, rangeTodo>>
    /\ ServerIdleRest

\* acceptor.Start returns running; Server.Start sets running and returns
ServerStarted ==
    /\ spc["starter"] = "Spawn"
    /\ acc.workerCounter = acc.parallelism
    /\ acc' = [acc EXCEPT !.running = TRUE]
    /\ accMu' = "free"
    /\ srv' = [srv EXCEPT !.running = TRUE, !.acceptor = TRUE]
    /\ srvMu' = "free"
    /\ spc' = [spc EXCEPT !["starter"] = "done"]
    /\ UNCHANGED <<group, conns, wpc, rangeTodo>>
    /\ ServerIdleRest

\* a worker: AcceptTCP returns a connection, the callback starts the
\* goroutine of the connection
WorkerAccept(w, c) ==
    /\ wpc[w] = "Accept"
    /\ acc.listener = "open"
    /\ conns[c].stage = "none"
    /\ \A d \in Conns : d < c => conns[d].stage # "none"
    /\ conns' = [conns EXCEPT ![c].stage = "accepted"]
    /\ UNCHANGED <<srv, srvMu, acc, accMu, group, spc, wpc, rangeTodo>>
    /\ ServerIdleRest

\* a worker: AcceptTCP returns an error on the closed listener
WorkerAcceptFails(w) ==
    /\ wpc[w] = "Accept"
    /\ acc.listener = "closed"
    /\ wpc' = [wpc EXCEPT ![w] = "Exit"]
    /\ UNCHANGED <<srv, srvMu, acc, accMu, group, conns, spc, rangeTodo>>
    /\ ServerIdleRest

\* a worker that marks the acceptor stopped whenever it exits
WorkerExitStops(w) ==
    /\ wpc[w] = "Exit"
    /\ accMu = "free"
    /\ wpc' = [wpc EXCEPT ![w] = "exited"]
    /\ acc' = [acc EXCEPT !.workerCounter = @ - 1, !.running = FALSE,
                          !.wg = IF acc.workerCounter = 1 THEN @ - 1 ELSE @,
                          !.done = IF acc.workerCounter = 1 THEN @ + 1 ELSE @]
    /\ UNCHANGED <<srv, srvMu, accMu, group, conns, spc, rangeTodo>>
    /\ ServerIdleRest

\* a worker's deferred function, under the acceptor's mutex
WorkerExit(w) ==
    /\ wpc[w] = "Exit"
    /\ accMu = "free"
    /\ wpc' = [wpc EXCEPT ![w] = "exited"]
    /\ acc' = IF acc.workerCounter = 1
              THEN [acc EXCEPT !.workerCounter = 0, !.running = FALSE,
                               !.wg = @ - 1, !.done = @ + 1]
              ELSE [acc EXCEPT !.workerCounter = @ - 1]
    /\ UNCHANGED <<srv, srvMu, accMu, group, conns, spc, rangeTodo>>
    /\ ServerIdleRest

\* the goroutine of a connection: InitPipeline and Start
ConnStartPipeline(c) ==
    /\ conns[c].stage = "accepted"
    /\ conns' = [conns EXCEPT ![c].stage = "started", ![c].pipe = "running"]
    /\ UNCHANGED <<srv, srvMu, acc, accMu, group, spc, wpc, rangeTodo>>
    /\ ServerIdleRest

\* the goroutine of a connection: s.channelGroup.Add(pipeline.GetChannel())
ConnGroupAdd(c) ==
    /\ conns[c].stage = "started"
    /\ group' = group \cup {c}
    /\ conns' = [conns EXCEPT ![c].stage = "Sync"]
    /\ UNCHANGED <<srv, srvMu, acc, accMu, spc, wpc, rangeTodo>>
    /\ ServerIdleRest

\* the goroutine of a connection: pipeline.Sync() returns, Remove
ConnGroupRemove(c) ==
    /\ conns[c].stage = "Sync"
    /\ conns[c].pipe = "shutdown"
    /\ group' = group \ {c}
    /\ conns' = [conns EXCEPT ![c].stage = "removed"]
    /\ UNCHANGED <<srv, srvMu, acc, accMu, spc, wpc, rangeTodo>>
    /\ ServerIdleRest

\* the peer closes a connection: its pipeline stops itself
ConnPeerCloses(c) ==
    /\ conns[c].pipe = "running"
    /\ conns' = [conns EXCEPT ![c].pipe = "shutdown", ![c].closed = TRUE]
    /\ UNCHANGED <<srv, srvMu, acc, accMu, group, spc, wpc, rangeTodo>>
    /\ ServerIdleRest

\* Server.Stop: the mutex, the state, and the acceptor's Stop, which closes
\* the listener and returns
ServerStop ==
    /\ spc["stopper"] = "idle"
    /\ srvMu = "free"
    /\ IF ~srv.running
       THEN /\ spc' = [spc EXCEPT !["stopper"] = "returned"]
            /\ UNCHANGED <<srvMu, acc, rangeTodo>>
       ELSE /\ accMu = "free"
            /\ srvMu' = "stop"
            /\ acc' = IF acc.running THEN [acc EXCEPT !.listener = "closed"] ELSE acc
            /\ rangeTodo' = group
            /\ spc' = [spc EXCEPT !["stopper"] = "CloseAll"]
    /\ UNCHANGED <<srv, accMu, group, conns, wpc>>
    /\ ServerIdleRest

\* CloseAll: Range reaches a channel, closes it (pipeline.Stop) and deletes
\* it; a channel stored while Range runs may be reached or not
CloseAllVisit(c) ==
    /\ spc["stopper"] = "CloseAll"
    /\ c \in group
    /\ conns' = [conns EXCEPT ![c].pipe = "shutdown", ![c].closed = TRUE]
    /\ group' = group \ {c}
    /\ rangeTodo' = rangeTodo \ {c}
    /\ UNCHANGED <<srv, srvMu, acc, accMu, spc, wpc>>
    /\ ServerIdleRest

\* Server.Stop after CloseAll: the state, the wait group, the return
ServerStopped ==
    /\ spc["stopper"] = "CloseAll"
    /\ rangeTodo \cap group = {}
    /\ srv' = [srv EXCEPT !.running = FALSE, !.acceptor = FALSE, !.done = @ + 1]
    /\ srvMu' = "free"
    /\ spc' = [spc EXCEPT !["stopper"] = "done"]
    /\ UNCHANGED <<acc, accMu, group, conns, wpc, rangeTodo>>
    /\ ServerIdleRest

ServerNext ==
    \/ ServerStart
    \/ \E w \in AcceptWorkers : AcceptorSpawn(w)
    \/ ServerStarted
    \/ \E w \in AcceptWorkers, c \in Conns : WorkerAccept(w, c)
    \/ \E w \in AcceptWorkers : WorkerAcceptFails(w)
    \/ \E w \in AcceptWorkers : WorkerExit(w)
    \/ \E c \in Conns : ConnStartPipeline(c)
    \/ \E c \in Conns : ConnGroupAdd(c)
    \/ \E c \in Conns : ConnGroupRemove(c)
    \/ \E c \in Conns : ConnPeerCloses(c)
    \/ ServerStop
    \/ \E c \in Conns : CloseAllVisit(c)
    \/ ServerStopped

ServerSpec == ServerInit /\ [][ServerNext]_vars

\* goroutines that can run do run; nobody is bound to call Stop, and no peer
\* is bound to connect or to close
ServerFairness ==
    /\ \A w \in AcceptWorkers :
        /\ WF_vars(AcceptorSpawn(w))
        /\ WF_vars(WorkerAcceptFails(w))
        /\ WF_vars(WorkerExit(w))
    /\ WF_vars(ServerStarted)
    /\ \A c \in Conns :
        /\ WF_vars(ConnStartPipeline(c))
        /\ WF_vars(ConnGroupAdd(c))
        /\ WF_vars(ConnGroupRemove(c))
        /\ WF_vars(CloseAllVisit(c))
    /\ WF_vars(ServerStopped)

ServerFairSpec == ServerSpec /\ ServerFairness

\* ------------------------------------------------------------------------
\* The client (tcp/client.go, pipelineClient); its pipeline is kept as its
\* state and the entries waiting in its outbound queue
\* ------------------------------------------------------------------------
ClientInit ==
    /\ PipelineOff
    /\ BufOff
    /\ CodecOff
    /\ AckOff
    /\ ServerOff
    /\ ReaderOff
    /\ UtilOff
    /\ ClientNew

ClientIdleRest == UNCHANGED <<pvars, tvars, evars, hvars, bvars, cvars, avars, svars, rvars, uvars>>

ClientMutexFree == clMuW = "" /\ clMuR = {}

\* Client.Start, under the write lock: dial, InitPipeline, pipeline.Start,
\* the watcher, the state; ok is whether dial and pipeline succeed
ClientStart(ok) ==
    /\ kpc["starter"] = "idle"
    /\ ClientMutexFree
    /\ kpc' = [kpc EXCEPT !["starter"] = "done",
                          !["watcher"] = IF ok /\ ~cl.running THEN "Sync" ELSE @]
    /\ IF ok /\ ~cl.running
       THEN /\ cl' = [cl EXCEPT !.running = TRUE, !.pipeline = TRUE, !.wg = @ + 1]
            /\ clPipe' = [clPipe EXCEPT !.state = "running"]
       ELSE UNCHANGED <<cl, clPipe>>
    /\ UNCHANGED <<clMuW, clMuR, clCall, nCalls>>
    /\ ClientIdleRest

\* the pipeline stops on its own (read failure or peer close); the entries
\* its outbound worker has not taken stay in the queue
ClientPipelineDies ==
    /\ clPipe.state = "running"
    /\ clPipe' = [clPipe EXCEPT !.state = "shutdown", !.self = TRUE]
    /\ UNCHANGED <<cl, clMuW, clMuR, kpc, clCall, nCalls>>
    /\ ClientIdleRest

\* the outbound worker of the pipeline takes an entry, writes it and calls
\* its callback: a Send waiting for it has its result
ClientPipelineWrites ==
    /\ clPipe.state = "running"
    /\ clPipe.queued > 0
    /\ clPipe' = [clPipe EXCEPT !.queued = @ - 1]
    /\ IF kpc["sender"] = "SendWait"
       THEN /\ kpc' = [kpc EXCEPT !["sender"] = "SendReturn"]
            /\ clCall' = [clCall EXCEPT !.err = NoError]
       ELSE UNCHANGED <<kpc, clCall>>
    /\ UNCHANGED <<cl, clMuW, clMuR, nCalls>>
    /\ ClientIdleRest

\* the watcher: pipeline.Sync() returns
WatcherSyncReturns ==
    /\ kpc["watcher"] = "Sync"
    /\ clPipe.state = "shutdown"
    /\ kpc' = [kpc EXCEPT !["watcher"] = "CheckRun"]
    /\ UNCHANGED <<cl, clMuW, clMuR, clPipe, clCall, nCalls>>
    /\ ClientIdleRest

\* the watcher: misc.LifecycleCheckRun(c), IsRunning under the read lock
WatcherCheckRun ==
    /\ kpc["watcher"] = "CheckRun"
    /\ clMuW = ""
    /\ kpc' = [kpc EXCEPT !["watcher"] = IF cl.running THEN "Stop" ELSE "done"]
    /\ UNCHANGED <<cl, clMuW, clMuR, clPipe, clCall, nCalls>>
    /\ ClientIdleRest

\* an application thread calls Client.Stop
ClientStopCall ==
    /\ kpc["stopper"] = "idle"
    /\ kpc' = [kpc EXCEPT !["stopper"] = "Stop"]
    /\ UNCHANGED <<cl, clMuW, clMuR, clPipe, clCall, nCalls>>
    /\ ClientIdleRest

\* Client.Stop, under the write lock
ClientStop(t) ==
    /\ kpc[t] = "Stop"
    /\ ClientMutexFree
    /\ kpc' = [kpc EXCEPT ![t] = "done"]
    /\ IF cl.running
       THEN /\ clPipe' = [clPipe EXCEPT !.state = "shutdown"]
            /\ cl' = [cl EXCEPT !.running = FALSE, !.pipeline = FALSE, !.wg = @ - 1]
       ELSE UNCHANGED <<cl, clPipe>>
    /\ UNCHANGED <<clMuW, clMuR, clCall, nCalls>>
    /\ ClientIdleRest

\* what a call of Send or SendFuture is, before it has done anything
NewCall(api, cb) ==
    [api |-> api, cb |-> cb, running |-> cl.running, err |-> NoError,
     cbErr |-> NoError, panic |-> FALSE, touched |-> FALSE]

\* Client.Send up to channel.Send: the read lock, the test, and the entry
\* pushed by pipeline.SendFuture; a pipeline that is not running answers
\* through the callback
ClientSend ==
    /\ kpc["sender"] = "idle"
    /\ nCalls < MaxCalls
    /\ clMuW = ""
    /\ nCalls' = nCalls + 1
    /\ IF cl.running /\ cl.pipeline
       THEN /\ clMuR' = clMuR \cup {"sender"}
            /\ IF clPipe.state = "running"
               THEN /\ clPipe' = [clPipe EXCEPT !.queued = @ + 1]
                    /\ clCall' = [NewCall("Send", TRUE) EXCEPT !.touched = TRUE]
                    /\ kpc' = [kpc EXCEPT !["sender"] = "SendWait"]
               ELSE /\ clCall' = [NewCall("Send", TRUE) EXCEPT
                                    !.touched = TRUE,
                                    !.err = ErrorValue("pipeline closed", "")]
                    /\ kpc' = [kpc EXCEPT !["sender"] = "SendReturn"]
                    /\ UNCHANGED clPipe
       ELSE /\ clCall' = [NewCall("Send", TRUE) EXCEPT !.err = ClientNotRunningError]
            /\ kpc' = [kpc EXCEPT !["sender"] = "returned"]
            /\ UNCHANGED <<clMuR, clPipe>>
    /\ UNCHANGED <<cl, clMuW>>
    /\ ClientIdleRest

\* Client.Send: channel.Send has returned, the deferred RUnlock
ClientSendReturns ==
    /\ kpc["sender"] = "SendReturn"
    /\ clMuR' = clMuR \ {"sender"}
    /\ kpc' = [kpc EXCEPT !["sender"] = "returned"]
    /\ UNCHANGED <<cl, clMuW, clPipe, clCall, nCalls>>
    /\ ClientIdleRest

\* Client.SendFuture, under the read lock; cb is whether the callback is
\* not nil. c.pipeline.GetChannel() on the nil pipeline of a client that is
\* not running is a nil dereference
ClientSendFuture(cb) ==
    /\ kpc["sender"] = "idle"
    /\ nCalls < MaxCalls
    /\ clMuW = ""
    /\ nCalls' = nCalls + 1
    /\ kpc' = [kpc EXCEPT !["sender"] = "returned"]
    /\ IF ~cl.running /\ cb
       THEN /\ clCall' = [NewCall("SendFuture", cb) EXCEPT
                            !.cbErr = ErrorValue("client is not running", "")]
            /\ UNCHANGED clPipe
       ELSE IF ~cl.pipeline
       THEN /\ clCall' = [NewCall("SendFuture", cb) EXCEPT !.panic = TRUE]
            /\ UNCHANGED clPipe
       ELSE IF clPipe.state = "running"
       THEN /\ clCall' = [NewCall("SendFuture", cb) EXCEPT !.touched = TRUE]
            /\ clPipe' = [clPipe EXCEPT !.queued = @ + 1]
       ELSE /\ clCall' = [NewCall("SendFuture", cb) EXCEPT
                            !.touched = TRUE,
                            !.cbErr = IF cb THEN ErrorValue("pipeline closed", "")
                                      ELSE NoError]
            /\ UNCHANGED clPipe
    /\ UNCHANGED <<cl, clMuW, clMuR>>
    /\ ClientIdleRest

\* the application thread goes on to its next call
ClientNextCall ==
    /\ kpc["sender"] = "returned"
    /\ ~clCall.panic
    /\ kpc' = [kpc EXCEPT !["sender"] = "idle"]
    /\ UNCHANGED <<cl, clMuW, clMuR, clPipe, clCall, nCalls>>
    /\ ClientIdleRest

\* Client.Sync is called
ClientSyncCall ==
    /\ kpc["syncer"] = "idle"
    /\ kpc' = [kpc EXCEPT !["syncer"] = "Wait"]
    /\ UNCHANGED <<cl, clMuW, clMuR, clPipe, clCall, nCalls>>
    /\ ClientIdleRest

\* Client.Sync: c.waitGroup.Wait() returns
ClientSyncReturns ==
    /\ kpc["syncer"] = "Wait"
    /\ cl.wg = 0
    /\ kpc' = [kpc EXCEPT !["syncer"] = "done"]
    /\ UNCHANGED <<cl, clMuW, clMuR, clPipe, clCall, nCalls>>
    /\ ClientIdleRest

ClientNext ==
    \/ \E ok \in BOOLEAN : ClientStart(ok)
    \/ ClientPipelineDies
    \/ ClientPipelineWrites
    \/ WatcherSyncReturns
    \/ WatcherCheckRun
    \/ ClientStopCall
    \/ \E t \in {"watcher", "stopper"} : ClientStop(t)
    \/ ClientSend
    \/ ClientSendReturns
    \/ \E cb \in BOOLEAN : ClientSendFuture(cb)
    \/ ClientNextCall
    \/ ClientSyncCall
    \/ ClientSyncReturns

ClientSpec == ClientInit /\ [][ClientNext]_vars

\* the goroutines of the client and of its pipeline run when they can; the
\* application is not bound to call anything and the peer not to disconnect
ClientFairness ==
    /\ WF_vars(ClientPipelineWrites)
    /\ WF_vars(WatcherSyncReturns)
    /\ WF_vars(WatcherCheckRun)
    /\ \A t \in {"watcher", "stopper"} : WF_vars(ClientStop(t))
    /\ WF_vars(ClientSendReturns)
    /\ WF_vars(ClientSyncReturns)

ClientFairSpec == ClientSpec /\ ClientFairness


\* ------------------------------------------------------------------------
\* The reader worker (handleConnRead) over a codec: the bytes of every read
\* go into the ByteBuf, the decode loop runs, the ByteBuf is released
\* ------------------------------------------------------------------------
\* byteBufferSize = 2 * readBufferSize
byteBufferSize == 2 * MaxRead

\* the configurations of the reader's codec: no frame limit, or one below
\* the size of the smallest frame
ReaderConfigs == {c \in CodecConfigs : c.FrameLimit \in {0, 4}}

ReaderInit ==
    /\ PipelineOff
    /\ buf = NewElasticUnsafeByteBuf(byteBufferSize)
    /\ bufWritten = 0
    /\ bufRead = <<>>
    /\ bufOps = {}
    /\ bufPanic = FALSE
    /\ cfg \in ReaderConfigs
    /\ frames = <<>>
    /\ wire = <<>>
    /\ dec = ResetBuffer
    /\ out = <<>>
    /\ lastEncode = NoEncode
    /\ AckOff
    /\ ServerOff
    /\ ClientOff
    /\ ReaderNew
    /\ UtilOff

ReaderIdleRest ==
    UNCHANGED <<pvars, tvars, evars, hvars, avars, svars, kvars, uvars, cfg, frames,
                lastEncode, bufWritten, bufRead, bufOps, bufPanic>>

\* TLVFrameDecoder.Decode panics in a ReadBytes whose target lies behind the
\* end of the backing array
TLVDecodePanics(c, d, pb) ==
    LET r == TLVDecode(c, d, pb)
        needTag == ~d.hasTag
        pb1 == IF needTag THEN ReadBytes(pb, TagSize) ELSE pb
    IN  IF needTag /\ ReadableBytes(pb) < TagSize THEN FALSE
        ELSE IF needTag /\ ReadBytesPanics(pb, TagSize) THEN TRUE
        ELSE IF needTag /\ ReadBytesResult(pb, TagSize)[1] # c.TagValue THEN FALSE
        ELSE IF ~d.hasLength /\ ReadableBytes(pb1) < LengthSize THEN FALSE
        ELSE IF ~d.hasLength /\ ReadBytesPanics(pb1, LengthSize) THEN TRUE
        ELSE r.buf.readIndex > Len(pb.buffer)

\* the Decode call of the reader panics
DecodePanics(c, d, pb) ==
    IF c.codec = "apollo" /\ ReadableBytes(pb) = 0 THEN FALSE ELSE TLVDecodePanics(c, d, pb)

\* cp.decoder.Decode(byteBuffer)
Decode(c, d, pb) == IF c.codec = "tlv" THEN TLVDecode(c, d, pb) ELSE ApolloDecode(c, d, pb)

\* the results handed to the handler, the first MaxResults of them
Handed(r) == IF Len(out) < MaxResults THEN Append(out, Returned(r)) ELSE out

\* cp.conn.Read returns n bytes, a few of the bytes on the wire or all that
\* the read buffer takes; byteBuffer.WriteBytes(readBuffer[:count])
ReaderRead(n) ==
    /\ rd.pc = "Read"
    /\ n <= Len(wire)
    /\ n <= MaxChunk \/ n = Len(wire) \/ n = MaxRead
    /\ LET chunk == SubSeq(wire, 1, n)
       IN  IF WriteBytesPanics(buf, chunk)
           THEN /\ rd' = [rd EXCEPT !.pc = "panic"]
                /\ UNCHANGED buf
           ELSE /\ rd' = [rd EXCEPT !.pc = "Decode", !.received = @ + n]
                /\ buf' = WriteBytes(buf, chunk)
    /\ wire' = SubSeq(wire, n + 1, Len(wire))
    /\ UNCHANGED <<dec, out>>
    /\ ReaderIdleRest

\* one turn of the decode loop: Decode; an error goes to ChannelError and a
\* message to the inbound queue, and the loop goes on; on (nil, nil) the loop
\* ends, byteBuffer.Release(), and the reader reads again
ReaderDecode ==
    /\ rd.pc = "Decode"
    /\ IF DecodePanics(cfg, dec, buf)
       THEN /\ rd' = [rd EXCEPT !.pc = "panic", !.fedAfter = @ \/ rd.failed]
            /\ UNCHANGED <<dec, out, buf>>
       ELSE LET r == Decode(cfg, dec, buf)
            IN  /\ dec' = r.dec
                /\ IF r.result = "nil"
                   THEN /\ out' = out
                        /\ IF ReleasePanics(r.buf)
                           THEN /\ buf' = r.buf
                                /\ rd' = [rd EXCEPT !.pc = "panic",
                                                    !.fedAfter = @ \/ rd.failed]
                           ELSE /\ buf' = Release(r.buf)
                                /\ rd' = [rd EXCEPT !.pc = "Read",
                                                    !.fedAfter = @ \/ rd.failed]
                   ELSE /\ out' = Handed(r)
                        /\ buf' = r.buf
                        /\ rd' = [rd EXCEPT !.failed = @ \/ r.result = "err",
                                            !.fedAfter = @ \/ rd.failed]
    /\ UNCHANGED wire
    /\ ReaderIdleRest

ReaderNext ==
    \/ \E msg \in TLVInputs : TLVEncoderEncode(msg)
    \/ \E m \in ApolloInputs : ApolloEncoderEncode(m)
    \/ \E tag \in TagValues, value \in RawValues : PeerWritesFrame(tag, value)
    \/ \E n \in 1..MaxRead : ReaderRead(n)
    \/ ReaderDecode

ReaderSpec == ReaderInit /\ [][ReaderNext]_vars

\* ------------------------------------------------------------------------
\* The goroutine wrapper (parallel/goroutine.go): callers of Start, one of
\* Join, one of IsAlive, and the goroutine every effective Start launches
\* ------------------------------------------------------------------------
\* Start calls of one caller
MaxStartCalls == 2

\* IsAlive calls
MaxAliveCalls == 2

OthersOff ==
    /\ PipelineOff
    /\ BufOff
    /\ CodecOff
    /\ AckOff
    /\ ServerOff
    /\ ClientOff
    /\ ReaderOff

GoroutineInit ==
    /\ OthersOff
    /\ GoroutineNew
    /\ bs = NewByteSliceBitSet

GoroutineIdleRest == UNCHANGED <<pvars, tvars, evars, hvars, bvars, cvars, avars, svars, kvars, rvars, bs>>

\* Start: c.stateMutex.Lock()
StartLock(t) ==
    /\ gr.spc[t] = "idle"
    /\ gr.calls[t] < MaxStartCalls
    /\ gr.mutex = "free"
    /\ gr' = [gr EXCEPT !.mutex = t, !.spc[t] = "Check", !.calls[t] = @ + 1]
    /\ GoroutineIdleRest

\* Start launches the goroutine whatever the state is
StartCheckSkipped(t) ==
    /\ gr.spc[t] = "Check"
    /\ gr' = [gr EXCEPT !.wg = @ + 1, !.spc[t] = "run"]
    /\ GoroutineIdleRest

\* Start: outside New the call returns (the deferred Unlock runs); in New
\* c.stateWaitGroup.Add(1)
StartCheck(t) ==
    /\ gr.spc[t] = "Check"
    /\ IF gr.state # goroutineStateNew
       THEN gr' = [gr EXCEPT !.mutex = "free", !.spc[t] = "idle", !.started = TRUE]
       ELSE gr' = [gr EXCEPT !.wg = @ + 1, !.spc[t] = "run"]
    /\ GoroutineIdleRest

\* Start: c.run(), the go statement
StartRun(t) ==
    /\ gr.spc[t] = "run"
    /\ gr' = [gr EXCEPT !.rpc[t] = "spawned", !.spc[t] = "Set"]
    /\ GoroutineIdleRest

\* Start: c.state = stateRunning, the deferred Unlock and the return
StartSetRunning(t) ==
    /\ gr.spc[t] = "Set"
    /\ gr' = [gr EXCEPT !.state = goroutineStateRunning, !.mutex = "free",
                        !.spc[t] = "idle", !.started = TRUE]
    /\ GoroutineIdleRest

\* the goroutine: c.Run() calls the statement
RunStatement(t) ==
    /\ gr.rpc[t] = "spawned"
    /\ gr' = [gr EXCEPT !.rpc[t] = "Run", !.executed = @ + 1]
    /\ GoroutineIdleRest

\* the goroutine: the statement returns
RunStatementEnds(t) ==
    /\ gr.rpc[t] = "Run"
    /\ gr' = [gr EXCEPT !.rpc[t] = "Lock"]
    /\ GoroutineIdleRest

\* the goroutine: Lock, c.state = stateFinish, Unlock
RunFinish(t) ==
    /\ gr.rpc[t] = "Lock"
    /\ gr.mutex = "free"
    /\ gr' = [gr EXCEPT !.state = stateFinish, !.rpc[t] = "Done"]
    /\ GoroutineIdleRest

\* the goroutine: c.stateWaitGroup.Done(), the cleanup and the end
RunDone(t) ==
    /\ gr.rpc[t] = "Done"
    /\ gr' = [gr EXCEPT !.wg = @ - 1, !.rpc[t] = "exit"]
    /\ GoroutineIdleRest

\* IsAlive: RLock, return c.state == stateRunning, RUnlock
IsAlive ==
    /\ gr.nAlive < MaxAliveCalls
    /\ gr.mutex = "free"
    /\ gr' = [gr EXCEPT !.nAlive = @ + 1,
                        !.alive = IF gr.state = goroutineStateRunning
                                  THEN "true" ELSE "false"]
    /\ GoroutineIdleRest

\* Join is called: c.stateWaitGroup.Wait() begins
JoinCall ==
    /\ gr.jpc = "idle"
    /\ gr' = [gr EXCEPT !.jpc = "Wait", !.jafter = gr.started]
    /\ GoroutineIdleRest

\* Join: Wait returns when the counter is zero
JoinReturns ==
    /\ gr.jpc = "Wait"
    /\ gr.wg = 0
    /\ gr' = [gr EXCEPT !.jpc = "done"]
    /\ GoroutineIdleRest

GoroutineNext ==
    \/ \E t \in Starters : StartLock(t)
    \/ \E t \in Starters : StartCheck(t)
    \/ \E t \in Starters : StartRun(t)
    \/ \E t \in Starters : StartSetRunning(t)
    \/ \E t \in Starters : RunStatement(t)
    \/ \E t \in Starters : RunStatementEnds(t)
    \/ \E t \in Starters : RunFinish(t)
    \/ \E t \in Starters : RunDone(t)
    \/ IsAlive
    \/ JoinCall
    \/ JoinReturns

GoroutineSpec == GoroutineInit /\ [][GoroutineNext]_vars

\* ------------------------------------------------------------------------
\* The BitSet (util/bitset.go, byteSliceBitSet)
\* ------------------------------------------------------------------------
\* the largest index handed to Set, Clear and Get
MaxBitIndex == 9

\* Set calls
MaxSets == 3

BitIndexes == -1..MaxBitIndex

\* bit k of a byte
Bit(byte, k) == (byte \div (2 ^ k)) % 2

\* checkCapacity
checkCapacity(b, index) == ~(Len(b.bytes) * 8 - 1 < index)

\* checkAndIncreaseCapacity: the bytes after the call
checkAndIncreaseCapacity(b, index) ==
    IF index < 0 \/ checkCapacity(b, index)
    THEN b.bytes
    ELSE LET newCapacity == IF (index + 1) % 8 = 0
                            THEN (index + 1) \div 8
                            ELSE (index + 1) \div 8 + 1
         IN  [k \in 1..newCapacity |-> IF k <= Len(b.bytes) THEN b.bytes[k] ELSE 0]

\* locateBit: the byte (counted from 0) and the bit of an index
locateBit(index) ==
    IF (index + 1) % 8 = 0
    THEN [byteIndex |-> (index + 1) \div 8 - 1, bitIndex |-> 7]
    ELSE [byteIndex |-> (index + 1) \div 8, bitIndex |-> ((index + 1) % 8) - 1]

\* Get
Get(b, index) ==
    IF index < 0 \/ ~checkCapacity(b, index)
    THEN FALSE
    ELSE Bit(b.bytes[locateBit(index).byteIndex + 1], locateBit(index).bitIndex) # 0

\* IsEmpty
IsEmpty(b) == b.wordInUse = 0

\* Set
BitSetSet(index) ==
    /\ bs.sets < MaxSets
    /\ IF index < 0
       THEN UNCHANGED bs
       ELSE LET bytes == checkAndIncreaseCapacity(bs, index)
                at == locateBit(index)
                old == bytes[at.byteIndex + 1]
            IN  bs' = [bytes |-> [bytes EXCEPT ![at.byteIndex + 1] =
                                      IF Bit(old, at.bitIndex) = 1
                                      THEN old ELSE old + 2 ^ at.bitIndex],
                       wordInUse |-> bs.wordInUse + 1,
                       sets |-> bs.sets + 1]
    /\ UNCHANGED <<pvars, tvars, evars, hvars, bvars, cvars, avars, svars, kvars, rvars, gr>>

\* Clear
BitSetClear(index) ==
    /\ IF index < 0 \/ ~checkCapacity(bs, index)
       THEN UNCHANGED bs
       ELSE LET at == locateBit(index)
                old == bs.bytes[at.byteIndex + 1]
            IN  bs' = [bs EXCEPT !.bytes[at.byteIndex + 1] =
                                     IF Bit(old, at.bitIndex) = 1
                                     THEN old - 2 ^ at.bitIndex ELSE old,
                                 !.wordInUse = IF Bit(old, at.bitIndex) = 1
                                               THEN @ - 1 ELSE @]
    /\ UNCHANGED <<pvars, tvars, evars, hvars, bvars, cvars, avars, svars, kvars, rvars, gr>>

\* Reset
BitSetReset ==
    /\ bs' = [bs EXCEPT !.wordInUse = 0, !.bytes = <<>>]
    /\ UNCHANGED <<pvars, tvars, evars, hvars, bvars, cvars, avars, svars, kvars, rvars, gr>>

BitSetInit ==
    /\ OthersOff
    /\ GoroutineNew
    /\ bs = NewByteSliceBitSet

BitSetNext ==
    \/ \E index \in BitIndexes : BitSetSet(index)
    \/ \E index \in BitIndexes : BitSetClear(index)
    \/ BitSetReset

BitSetSpec == BitSetInit /\ [][BitSetNext]_vars

\* ------------------------------------------------------------------------
\* Properties
\* ------------------------------------------------------------------------
\* the thread is inside Stop, past the state check (the pipeline was RUNNING)
InStopBody(t) == pc[t] \in {"Stop_JoinInbound", "Stop_JoinOutbound", "Stop_JoinReader"}

\* the number of times the callback of send id i has been invoked
Count(i) == Cardinality({k \in 1..Len(cbLog) : cbLog[k][1] = i})

\* the position of x in a sequence without repetitions (0 when absent)
Pos(seq, x) == IF \E k \in 1..Len(seq) : seq[k] = x
               THEN CHOOSE k \in 1..Len(seq) : seq[k] = x
               ELSE 0

\* the ids of the callbacks that fired, in firing order
CbIds == [k \in 1..Len(cbLog) |-> cbLog[k][1]]

\* a is a subsequence of b (neither repeats an element)
InOrderOf(a, b) ==
    /\ \A k \in 1..Len(a) : Pos(b, a[k]) > 0
    /\ \A j, k \in 1..Len(a) : j < k => Pos(b, a[j]) < Pos(b, a[k])

\* C1: the state only moves New -> Ready -> Running -> Shutdown, one step at
\* a time (so no edge is taken twice), each edge is taken by its own
\* operation, and an Init outside New, a Start outside Ready or a Stop
\* outside Running changes nothing of the pipeline.
C1_LifecycleOrder ==
    [][ /\ state' # state =>
              \/ state = stateNew /\ state' = stateReady
                   /\ \E t \in Callers : PipelineInit(t)
              \/ state = stateReady /\ state' = stateRunning
                   /\ \E t \in Callers : Start(t)
              \/ state = stateRunning /\ state' = stateShutdown
                   /\ \E t \in Threads : StopJoinReader(t)
        /\ (state # stateNew /\ \E t \in Callers : PipelineInit(t))
              => UNCHANGED <<pvars, pc>>
        /\ (state # stateReady /\ \E t \in Callers : Start(t))
              => UNCHANGED <<pvars, pc>>
        /\ (state # stateRunning /\ \E t \in Threads : StopLock(t))
              => UNCHANGED pvars
      ]_vars

\* C1 witness: the pipeline went all the way to Shutdown, Stop calls that
\* did not apply returned before it was started and after it was stopped,
\* and one more Stop call is under way on the stopped pipeline.
C1_Witness ==
    /\ state = stateShutdown
    /\ stopReturned = {"unstarted", "stopped"}
    /\ \E t \in Callers : pc[t] = "Stop_Lock"

\* C2: with a handler that only returns (and no sends in flight), a Stop
\* that found the pipeline Running eventually returns, with the pipeline in
\* Shutdown.
C2_StopReturns ==
    (env.handler = "plain" /\ env.api = "none" /\ \E t \in Threads : InStopBody(t))
        ~> (state = stateShutdown /\ \A t \in Threads : ~InStopBody(t))

\* C3: a Stop called from inside ChannelRead (Channel.Close on the inbound
\* dispatcher) eventually returns, with the pipeline in Shutdown.
C3_StopFromHandlerReturns ==
    (env.handler = "close" /\ pc["inbound"] = "Stop_Lock")
        ~> (state = stateShutdown /\ pc["inbound"] = "ChannelRead_ret")

\* C4: with a handler whose ChannelRead calls Channel.Send, a Stop that
\* waits for the inbound dispatcher eventually stops waiting: the callback
\* is never blocked for good by the state lock Stop holds.
C4_StopJoinInboundEnds ==
    (env.handler = "send" /\ \E t \in Threads : pc[t] = "Stop_JoinInbound")
        ~> (\A t \in Threads : pc[t] # "Stop_JoinInbound")

\* C5: the callback of a SendFuture call with a message and a callback is
\* never invoked twice, and has been invoked exactly once when the call has
\* returned and the pipeline is in Shutdown.
C5_CallbackExactlyOnce ==
    \A i \in 1..nextSend :
        sendKind[i] = "user" =>
            /\ Count(i) <= 1
            /\ (state = stateShutdown /\ \A t \in Threads : cur[t] # i) => Count(i) = 1

\* C6: every call of Pipeline.Send eventually returns.
C6_SendReturns ==
    \A t \in Callers :
        (env.api = "Send" /\ pc[t] \in {"SendFuture", "SendFuture_push", "Send_wait"})
            ~> (pc[t] = "idle")

\* C7 as stated: no hook is invoked once any Stop call has returned.
C7_NoHookAfterAnyStop == hookAfterStop = {}

\* C7 as amended: no hook is invoked once a Stop call has returned that
\* stopped the pipeline or found it stopped.
C7_NoHookAfterStop == "stopped" \notin hookAfterStop

\* C7 witness: an application thread's Stop has stopped the pipeline and
\* returned after hooks of all three kinds ran, while the Stop goroutine
\* the reader started has not run yet.
C7_Witness ==
    /\ "stopped" \in stopReturned
    /\ pc["stopper"] = "Stop_Lock"
    /\ nActivate = 1
    /\ nInactivate = 1
    /\ delivered # <<>>

\* C8: ChannelRead calls do not overlap, and the messages passed to
\* ChannelRead are the first ones the decoder emitted, in emission order.
C8_InboundOrder ==
    /\ reading <= 1
    /\ Len(delivered) <= emitted
    /\ \A k \in 1..Len(delivered) : delivered[k] = k

\* C8 witness: messages were delivered while others waited in the queue and
\* one was being handled.
C8_Witness ==
    /\ Len(delivered) >= 3
    /\ Len(inboundDataC.buf) >= 2
    /\ reading = 1

\* C9: writes happen in push order, and the callbacks fire in push order,
\* each of them on the outbound worker.
C9_OutboundOrder ==
    /\ InOrderOf(wrLog, pushLog)
    /\ InOrderOf(CbIds, pushLog)
    /\ \A k \in 1..Len(cbLog) : cbLog[k][2] = "outbound"

\* C10: once ChannelInactivate has been invoked, no further message is
\* passed to ChannelRead.
C10_NoReadAfterInactivate == [][nInactivate > 0 => delivered' = delivered]_vars

\* C11: ChannelActivate is invoked (once) before any ChannelRead,
\* ChannelInactivate is never invoked twice, and it has been invoked by the
\* time the state is Shutdown.
C11_HookOrder ==
    /\ nActivate <= 1
    /\ nInactivate <= 1
    /\ delivered # <<>> => nActivate = 1
    /\ nInactivate = 1 => nActivate = 1
    /\ state = stateShutdown => nInactivate = 1

\* C11 witness: a pipeline that delivered messages reached Shutdown after
\* the reader's own Stop goroutine ran to its end.
C11_Witness ==
    /\ state = stateShutdown
    /\ Len(delivered) >= 2
    /\ pc["stopper"] = "done"
    /\ nInactivate = 1

\* C12: a Channel.Send never reaches the pipeline's queue code with the
\* pipeline not Running: it gets no "pipeline closed" error in place of
\* InvalidChannel, and its push never panics on the closed queue.
C12_ChannelSendInvalidChannel ==
    env.api = "ChannelSend" =>
        /\ ~crashed
        /\ \A k \in 1..Len(cbLog) : cbLog[k][3] # ErrPipelineClosed

\* C13: after a failed transport read (the reader went on to
\* ChannelInactivate) and after a failed transport write (a callback got the
\* write error), the pipeline eventually reaches Shutdown.
C13_IOFailureFatal ==
    (/\ env.api = "SendFuture"
     /\ \/ nInactivate > 0
        \/ \E k \in 1..Len(cbLog) : cbLog[k][3] = ErrWrite)
        ~> (state = stateShutdown)

\* C14: an encode failure passes the encode error to the entry's callback
\* and to ChannelError, writes nothing, leaves the state alone, and the
\* outbound worker returns to its select for the following entries.
C14_EncodeFailureIsPerSend ==
    [][ OutboundEncodeFail =>
          /\ outCur # 0 => /\ cbLog' = Append(cbLog, <<outCur, "outbound", ErrEncode>>)
                           /\ outCur \in encodeErrs'
          /\ wrLog' = wrLog
          /\ state' = state
          /\ pc'["outbound"] = "Select"
      ]_vars

\* C20: as long as only WriteBytes, Release and ReadBytes within the
\* readable count are called, no call panics, the bytes read so far are the
\* first bytes written, in order, and the readable region holds the bytes
\* written after them, in order.
C20_ReadsInWriteOrder ==
    bufOps = {} =>
        /\ ~bufPanic
        /\ \A k \in 1..Len(bufRead) : bufRead[k] = k
        /\ Len(bufRead) + ReadableBytes(buf) = bufWritten
        /\ \A i \in 1..ReadableBytes(buf) :
               /\ buf.readIndex + i <= Len(buf.buffer)
               /\ buf.buffer[buf.readIndex + i] = Len(bufRead) + i

\* ------------------------------------------------------------------------
\* Properties of the codecs
\* ------------------------------------------------------------------------
\* the frame the TLV format prescribes for a payload
ExpectedFrame(c, msg) == <<c.TagValue>> \o BE32(msg.len) \o msg.bytes

\* 1 + 4 + len(payload) exceeds a positive frame limit
ExceedsLimit(c, len) ==
    c.FrameLimit > 0 /\ WideLess(Wide(c.FrameLimit), WideAdd(Wide(1 + 4), len))

\* C16: the TLV encoder rejects an input that is no byte sequence; for a byte
\* sequence it returns an error exactly when frameLimit > 0 and
\* 1 + 4 + len(payload) > frameLimit, and otherwise the frame
\* tag, len(payload) as 4 big-endian bytes, payload.
C16_TLVEncodeContract ==
    (cfg.codec = "tlv" /\ lastEncode.called) =>
        LET msg == lastEncode.tlv
        IN  IF msg.kind # "bytes"
            THEN lastEncode.err # "nil"
            ELSE /\ (lastEncode.err # "nil") <=> ExceedsLimit(cfg, msg.len)
                 /\ lastEncode.err = "nil" =>
                        lastEncode.frame = ExpectedFrame(cfg, msg)

\* the number of bytes of the stream up to the end of frame k
RECURSIVE FrameEnd(_)
FrameEnd(k) == IF k = 0 THEN 0 ELSE FrameEnd(k - 1) + frames[k].size

\* the frame the decoder is at: the first one it has not consumed whole
\* (no Reset and no Release here: readIndex counts the bytes consumed and
\* writeIndex the bytes arrived)
CurFrame == 1 + Cardinality({k \in 1..Len(frames) : FrameEnd(k) <= buf.readIndex})

\* the last byte of the frame the decoder is at has arrived
CurFrameArrived == CurFrame <= Len(frames) /\ FrameEnd(CurFrame) <= buf.writeIndex

AllEncoded == \A k \in 1..Len(frames) : frames[k].how = "encoded"

\* no Decode call has returned an error yet
NoErrorYet == \A i \in 1..Len(out) : out[i].result # "err"

BytesResult(bytes) == [result |-> "msg", bytes |-> bytes, entity |-> NoEntity]

EntityResult(entity) == [result |-> "msg", bytes |-> <<>>, entity |-> entity]

ErrorResult == [result |-> "err", bytes |-> <<>>, entity |-> NoEntity]

\* C15: when every frame of the stream comes from the TLV encoder, then for
\* every split of the stream into chunks a Decode call returns the payload of
\* the next frame if the last byte of that frame has arrived, and (nil, nil)
\* otherwise; so the payloads come out once each, in the order of encoding.
C15_ChunkedStreamDecodes ==
    /\ [](cfg.codec = "tlv" /\ AllEncoded =>
            /\ Len(out) <= Len(frames)
            /\ \A k \in 1..Len(out) : out[k] = BytesResult(frames[k].value))
    /\ [][(cfg.codec = "tlv" /\ AllEncoded /\ TLVDecoderDecode) =>
            IF CurFrameArrived
            THEN out' = Append(out, BytesResult(frames[CurFrame].value))
            ELSE out' = out]_vars

\* a second frame is cut inside its length field, after the first one came out
C15_Witness ==
    /\ cfg.codec = "tlv"
    /\ AllEncoded
    /\ Len(frames) = 2
    /\ frames[1].value = <<1, 170>>
    /\ out = <<BytesResult(<<1, 170>>)>>
    /\ dec.hasTag
    /\ ~dec.hasLength
    /\ ReadableBytes(buf) = 2
    /\ wire # <<>>

\* a frame is malformed
Malformed(f) == f.tag # cfg.TagValue \/ ExceedsLimit(cfg, Wide(Len(f.value)))

\* C17: as long as the TLV decoder has returned no error, a Decode call that
\* returns something returns an error with no payload if the frame it is at is
\* malformed (wrong first byte, or frameLimit > 0 and 1 + 4 + length >
\* frameLimit), and the value of the frame otherwise; and it returns something
\* once the whole frame has arrived.
C17_ErrorIffMalformed ==
    [][(cfg.codec = "tlv" /\ NoErrorYet /\ TLVDecoderDecode) =>
        /\ out' # out =>
            /\ CurFrame <= Len(frames)
            /\ out' = Append(out, IF Malformed(frames[CurFrame])
                                  THEN ErrorResult
                                  ELSE BytesResult(frames[CurFrame].value))
        /\ CurFrameArrived => out' # out]_vars

\* a frame with an empty value came out, then a frame with the right tag and
\* a size over the limit was rejected
C17_Witness ==
    /\ cfg.codec = "tlv"
    /\ Len(frames) = 2
    /\ frames[2].tag = cfg.TagValue
    /\ out = <<BytesResult(<<>>), ErrorResult>>
    /\ buf.readIndex = FrameEnd(2)

\* frame k has the right tag and a size within the limit
WellFormed(k) == k <= Len(frames) /\ ~Malformed(frames[k])

\* C18: the typed decoder, at a well-formed frame that has arrived whole,
\* returns a decode error if the value is shorter than 2 bytes; if the type
\* code of the value has no registered constructor it returns no message and
\* no error, and the frame is consumed whole.
C18_UnknownTypeSkipped ==
    [][(/\ cfg.codec = "apollo"
        /\ NoErrorYet
        /\ ApolloDecoderDecode
        /\ CurFrameArrived
        /\ WellFormed(CurFrame)) =>
            IF Len(frames[CurFrame].value) < 2
            THEN out' = Append(out, ErrorResult)
            ELSE FromBE16(frames[CurFrame].value) \notin cfg.registered =>
                    /\ out' = out
                    /\ buf'.readIndex = FrameEnd(CurFrame)
                    /\ dec' = ResetBuffer]_vars

\* a frame of an unregistered type was consumed without a result, then a
\* frame with a value of one byte was rejected
C18_Witness ==
    /\ cfg.codec = "apollo"
    /\ Len(frames) = 2
    /\ frames[1].how = "encoded"
    /\ frames[1].entity.typeCode \notin cfg.registered
    /\ frames[2].value = <<0>>
    /\ out = <<ErrorResult>>
    /\ buf.readIndex = FrameEnd(2)

\* C19: the typed decoder, at a frame the typed encoder made of a message of
\* a registered type, returns a message with the type code and the content of
\* the encoded one; when the frame is the last thing in the buffer no
\* readable byte is left.
C19_TypedRoundTrip ==
    [][(/\ cfg.codec = "apollo"
        /\ NoErrorYet
        /\ ApolloDecoderDecode
        /\ CurFrameArrived
        /\ frames[CurFrame].how = "encoded"
        /\ frames[CurFrame].entity.typeCode \in cfg.registered) =>
            /\ out' = Append(out, EntityResult(frames[CurFrame].entity))
            /\ FrameEnd(CurFrame) = buf.writeIndex => ReadableBytes(buf') = 0]_vars

\* a message with content was encoded, arrived and came out, the buffer is
\* read up
C19_Witness ==
    /\ cfg.codec = "apollo"
    /\ Len(frames) = 1
    /\ frames[1].how = "encoded"
    /\ frames[1].entity = [typeCode |-> 1, data |-> <<7>>]
    /\ out = <<EntityResult([typeCode |-> 1, data |-> <<7>>])>>
    /\ ReadableBytes(buf) = 0
    /\ wire = <<>>

\* ------------------------------------------------------------------------
\* Properties of the ByteBuf
\* ------------------------------------------------------------------------
Min(a, b) == IF a < b THEN a ELSE b

\* C21: the indexes of a ByteBuf satisfy 0 <= readIndex <= writeIndex <=
\* capacity; a write increases writeIndex by the number of bytes written; a
\* read leaves writeIndex and does not decrease readIndex; Reset sets both
\* indexes to 0 and keeps the capacity; Release sets readIndex to 0 and
\* writeIndex to writeIndex - readIndex.
C21_IndexInvariants ==
    /\ [](/\ 0 <= buf.readIndex
          /\ buf.readIndex <= buf.writeIndex
          /\ buf.writeIndex <= buf.capacity)
    /\ [][/\ \A n \in 0..MaxWrite :
                BufWriteBytes(n) =>
                    /\ buf'.writeIndex = buf.writeIndex + n
                    /\ buf'.readIndex = buf.readIndex
          /\ \A n \in -1..MaxWrite :
                BufReadBytes(n) =>
                    /\ buf'.writeIndex = buf.writeIndex
                    /\ buf'.readIndex >= buf.readIndex
          /\ BufReset =>
                /\ buf'.readIndex = 0
                /\ buf'.writeIndex = 0
                /\ buf'.capacity = buf.capacity
          /\ BufRelease =>
                /\ buf'.readIndex = 0
                /\ buf'.writeIndex = buf.writeIndex - buf.readIndex]_vars

\* C22: ReadBytes(n) returns the first min(n, writeIndex - readIndex)
\* readable bytes and advances readIndex by the number of bytes returned; for
\* n <= 0 it returns nothing and does not advance.
C22_ReadBytesReturnsMin ==
    [][\A n \in -1..MaxWrite :
        (BufReadBytes(n) /\ ~bufPanic') =>
            LET count == IF n < 0 THEN 0 ELSE Min(n, buf.writeIndex - buf.readIndex)
            IN  /\ bufRead' = bufRead \o SubSeq(buf.buffer, buf.readIndex + 1,
                                                 buf.readIndex + count)
                /\ buf'.readIndex = buf.readIndex + count]_vars

\* ------------------------------------------------------------------------
\* Properties of the ack manager
\* ------------------------------------------------------------------------
\* the places of the events of a kind in the log
AckEvents(kind) == {i \in 1..Len(ackLog) : ackLog[i][1] = kind}

\* WaitAck began after an InitAck had returned
InitBeforeWait ==
    \E i \in AckEvents("init") : \E j \in AckEvents("wait") \cup AckEvents("waited") : i < j

\* the place where the select of WaitAck ended
SelectEnded == AckEvents("recv") \cup AckEvents("timeout")

\* a CommitAck delivered its value before the select of WaitAck ended
SentBeforeSelectEnded == \E i \in AckEvents("send") : \E j \in SelectEnded : i < j

\* the first value a CommitAck delivered
FirstSent == ackLog[CHOOSE i \in AckEvents("send") : \A j \in AckEvents("send") : i <= j][2]

\* an InitAck returned after WaitAck did
InitAfterWaited == \E i \in AckEvents("waited") : \E j \in AckEvents("init") : i < j

C24_CommitAckReturns == (apc["c"] = "Send") ~> (apc["c"] = "idle")

\* C25: a slot that holds a committed value is the slot of the key, or the
\* slot WaitAck has taken: no InitAck replaces it by a fresh one.
C25_OneSlotPerKey ==
    \A slot \in 1..Len(ackChans) :
        ackChans[slot] # <<>> => (ackRespChanMap = slot \/ aloc["w"] = slot)

\* C26: a WaitAck with a timeout > 0 that begins after an InitAck has
\* returned, with no value committed before its select ends, returns
\* (nil, AckTimeout); it returns; when it has returned the key has no slot
\* (unless an InitAck returns later), and a CommitAck that begins then is
\* dropped.
C26_TimeoutRemovesSlot ==
    /\ []((/\ apc["w"] = "done"
           /\ ackTimeout > 0
           /\ InitBeforeWait
           /\ ~SentBeforeSelectEnded) => ackRes = AckResult(0, AckTimeoutError))
    /\ []((apc["w"] = "done" /\ ~InitAfterWaited) => ackRespChanMap = 0)
    /\ [][(CommitAckLoad /\ apc["w"] = "done" /\ ~InitAfterWaited) =>
            /\ apc'["c"] = "idle"
            /\ ackChans' = ackChans]_vars
    /\ (apc["w"] = "Select" /\ ackTimeout > 0) ~> (apc["w"] = "done")

\* WaitAck timed out, and a CommitAck that came later was dropped
C26_Witness ==
    /\ ackRes = AckResult(0, AckTimeoutError)
    /\ InitBeforeWait
    /\ ~InitAfterWaited
    /\ \E i \in AckEvents("waited") : \E j \in AckEvents("drop") : i < j


\* the workers of the acceptor that have been started and have not run
\* their deferred exit
LiveWorkers == {w \in AcceptWorkers : wpc[w] \in {"Accept", "Exit"}}

\* in this step worker w runs its deferred exit
Exits(w) == wpc[w] = "Exit" /\ wpc'[w] = "exited"

\* C30: for an acceptor started with P >= 1 workers, once Stop has closed
\* the listener every worker eventually exits; whoever can read IsRunning
\* (the mutex is free) reads true while a worker has not exited; a worker
\* that exits sets the acceptor to stopped and calls Done exactly when it is
\* the last one, and Done is called once, so that Sync returns then
C30_LastWorkerStops ==
    /\ (acc.listener = "closed") ~> (LiveWorkers = {})
    /\ [](accMu = "free" /\ LiveWorkers # {} => acc.running)
    /\ [][\A w \in AcceptWorkers :
            Exits(w) =>
                IF LiveWorkers = {w}
                THEN acc.running /\ ~acc'.running /\ acc'.done = acc.done + 1
                                 /\ acc.wg = 1 /\ acc'.wg = 0
                ELSE acc'.running = acc.running /\ acc'.done = acc.done
                                 /\ acc'.wg = acc.wg]_vars
    /\ [](acc.done <= 1)

\* an acceptor of two workers, both exited after Stop, stopped and released
C30_Witness ==
    /\ acc.parallelism = 2
    /\ acc.listener = "closed"
    /\ \A w \in AcceptWorkers : wpc[w] = "exited"
    /\ ~acc.running
    /\ acc.done = 1
    /\ acc.wg = 0

\* C27: once Server.Stop has returned after stopping a running server, every
\* connection the server accepted and started a pipeline for has that
\* pipeline stopped and its transport closed, also a connection accepted
\* just before the listener was closed
C27_StopClosesEveryConnection ==
    spc["stopper"] = "done" =>
        \A c \in Conns :
            conns[c].pipe # "none" => conns[c].pipe = "shutdown" /\ conns[c].closed


\* the pipeline of the running client has reached Shutdown on its own
ClientPipelineDead == cl.running /\ clPipe.state = "shutdown" /\ clPipe.self

\* C28: when the pipeline of a running client reaches Shutdown on its own,
\* the client eventually is not running and Client.Sync returns (its wait
\* group is at zero and no caller is left waiting in it), also when a
\* Client.Send call is in flight at that moment
C28_ClientStopsItself ==
    ClientPipelineDead ~> (~cl.running /\ cl.wg = 0 /\ kpc["syncer"] # "Wait")

\* the call of Send or SendFuture has ended, and the client was not running
\* when it was made
CallOnStoppedClient ==
    /\ clCall.api # "none"
    /\ kpc["sender"] = "returned"
    /\ ~clCall.running

\* C29: Send and SendFuture on a client that is not running, never started
\* or stopped, fail with the message of ClientNotRunning, returned by Send
\* and passed to the callback of SendFuture if there is one, touch no
\* pipeline, and end without a panic, whatever the callback is, nil too
C29_NotRunningFails ==
    CallOnStoppedClient =>
        /\ ~clCall.panic
        /\ ~clCall.touched
        /\ clCall.api = "Send" => clCall.err.msg = ClientNotRunningError.msg
        /\ clCall.api = "SendFuture" /\ clCall.cb =>
                clCall.cbErr.msg = ClientNotRunningError.msg


StopSignalsClosed == inboundHandlerStopC = "closed" /\ outboundHandlerStopC = "closed"

HandlersJoined == Joined("inbound") /\ Joined("outbound")

\* C31: Stop keeps its order. The step that closes the transport finds both
\* stop signals closed and the inbound and the outbound worker terminated;
\* the step that goes on to join the reader leaves the transport closed;
\* the step that closes a queue finds the transport closed and all three
\* workers terminated; the step that sets Shutdown, which releases Sync,
\* leaves both queues closed
C31_StopOrder ==
    [][ /\ (~connClosed /\ connClosed') => StopSignalsClosed /\ HandlersJoined
        /\ \A t \in Threads :
              (pc[t] # "Stop_JoinReader" /\ pc'[t] = "Stop_JoinReader") => connClosed'
        /\ (\/ inboundDataC.st # "closed" /\ inboundDataC'.st = "closed"
            \/ outboundDataC.st # "closed" /\ outboundDataC'.st = "closed")
              => connClosed /\ HandlersJoined /\ Joined("reader")
        /\ (state # stateShutdown /\ state' = stateShutdown)
              => inboundDataC'.st = "closed" /\ outboundDataC'.st = "closed"
      ]_vars

\* a Stop ran through all its steps and returned: the workers are joined,
\* the transport and the queues are closed, the state is Shutdown
C31_Witness ==
    /\ state = stateShutdown
    /\ "stopped" \in stopReturned
    /\ connClosed
    /\ HandlersJoined
    /\ Joined("reader")
    /\ inboundDataC.st = "closed"


\* C32: once Decode has returned an error the reader does not call Decode
\* again on that decoder
C32_NoDecodeAfterError == ~rd.fedAfter

\* C33: the decode loop of the reader over the bytes it has received ends,
\* because every Decode call that returns a message or an error, and so
\* keeps the reader in the loop, consumes at least one byte of the buffer
C33_DecodeLoopEnds ==
    [][(ReaderDecode /\ rd'.pc = "Decode") => buf'.readIndex > buf.readIndex]_vars

\* the messages handed to the handler so far
Dispatched == {i \in 1..Len(out) : out[i].result = "msg"}

\* the frames up to frame k whose type code has a registered constructor
RegisteredUpTo(k) == {j \in 1..k : frames[j].entity.typeCode \in cfg.registered}

\* C34: with the typed codec and frames of the typed encoder, when the
\* reader is back in its read, every frame of a registered type that has
\* arrived whole behind a frame of an unregistered type has been handed to
\* the handler, as have the frames of registered types before it
C34_SkippedFrameDoesNotStall ==
    (rd.pc = "Read" /\ cfg.codec = "apollo" /\ AllEncoded) =>
        \A k \in 1..Len(frames) :
            (/\ FrameEnd(k) <= rd.received
             /\ k \in RegisteredUpTo(k)
             /\ RegisteredUpTo(k) # 1..k) =>
                Cardinality(Dispatched) >= Cardinality(RegisteredUpTo(k))


\* C35: an entry is pushed onto the outbound queue only while the pipeline
\* is Running, so a SendFuture in state Ready leaves the queue empty, and no
\* SendFuture sends on the queue Stop has closed, which would be a panic
C35_PushOnlyWhenRunning ==
    [][ /\ Len(outboundDataC'.buf) > Len(outboundDataC.buf) => state = stateRunning
        /\ \A t \in Threads : (SendFuture(t) /\ state = stateShutdown) => ~crashed'
      ]_vars


\* C36: the capacity of a ByteBuf is the length of its backing array, so the
\* writable count is the free space of the array and the write index never
\* passes the end of the array, also after a Release
C36_CapacityIsArrayLength ==
    /\ buf.capacity = Len(buf.buffer)
    /\ buf.writeIndex <= Len(buf.buffer)

\* C37 as stated: a write of need bytes that does not fit makes the capacity
\* (need + writeIndex) * 1.2 rounded up, a write that fits leaves it
C37_GrowthCeiling ==
    [][\A n \in 0..MaxWrite :
          (BufWriteBytes(n) /\ ~bufPanic') =>
              IF n > 0 /\ WritableBytes(buf) < n
              THEN buf'.capacity = ((n + buf.writeIndex) * 12 + 9) \div 10
              ELSE buf'.capacity = buf.capacity]_vars

\* C37 amended: a write of need > 0 bytes that does not fit makes the
\* capacity (need + writeIndex) * 1.2 rounded down, a write that fits
\* leaves it
C37_GrowthFloor ==
    [][\A n \in 0..MaxWrite :
          (BufWriteBytes(n) /\ ~bufPanic') =>
              IF n > 0 /\ WritableBytes(buf) < n
              THEN buf'.capacity = ((n + buf.writeIndex) * 12) \div 10
              ELSE buf'.capacity = buf.capacity]_vars

\* a buffer has grown to 3 bytes for 3 bytes (3.6 rounded down) and then,
\* full, to 4 bytes for one more (4.8 rounded down)
C37_Witness ==
    /\ buf.capacity = 4
    /\ buf.writeIndex = 4
    /\ Len(buf.buffer) = 4
    /\ bufOps = {}


\* the whole InitAck call of p ran after the select of the first WaitAck had
\* ended and before that WaitAck returned, and nobody else has called
\* WaitAck since
InitWhileWaitEnds(p) ==
    /\ aloc[p] # 0
    /\ \E j \in AckEvents("init") :
          /\ ackLog[j][2] = p
          /\ \E i \in SelectEnded : i < j
          /\ \A i \in AckEvents("waited") : j < i
    /\ \A q \in AckInitCallers \ {p} : apc[q] \in {"idle", "Store", "done"}

\* C38: a WaitAck that ends removes only the slot it waited on: the caller
\* of an InitAck that ran after the select of that WaitAck had ended and
\* before its removal finds a slot in its own WaitAck and waits, it does
\* not return (nil, nil) at once
C38_WaitRemovesOnlyItsSlot ==
    [][\A p \in AckInitCallers :
          (NextWaitAckLoad(p) /\ InitWhileWaitEnds(p)) => apc'[p] = "Select"]_vars


\* the statement has been launched and has not returned
InStatement == \E t \in Starters : gr.rpc[t] \in {"spawned", "Run"}

\* the statement has been launched and the wrapper has not recorded Finish
BeforeFinish == \E t \in Starters : gr.rpc[t] \in {"spawned", "Run", "Lock"}

\* the statement has returned
StatementEnded == \E t \in Starters : gr.rpc[t] \in {"Lock", "Done", "exit"}

\* the statement runs at most once, the state moves New -> Running ->
\* Finish only, and a Join begun after a Start returned returns after the
\* statement
StartOnceInOrder ==
    /\ gr'.executed <= 1
    /\ \/ gr'.state = gr.state
       \/ gr.state = goroutineStateNew /\ gr'.state = goroutineStateRunning
       \/ gr.state = goroutineStateRunning /\ gr'.state = stateFinish
    /\ (JoinReturns /\ gr.jafter) => StatementEnded

C40_EmptyIffNoBitSet ==
    IsEmpty(bs) <=> \A i \in BitIndexes : ~Get(bs, i)

====
